---------------------------- MODULE Spec2Model ----------------------------
(***************************************************************************)
(* Community bounties of the Roxonn platform: the bounty store, the HTTP   *)
(* routes (create / pay / claim), the webhook delivery record, the relayer *)
(* sweep and the CommunityBountyEscrow contract, as one state machine.     *)
(*                                                                         *)
(* Every await of a handler is a step of its own, so that requests and     *)
(* sweeps interleave exactly where the event loop lets them interleave.    *)
(* Amounts are integers in units of 10^-8 token (the DECIMAL(18,8) grid).  *)
(***************************************************************************)
EXTENDS Integers, Sequences, FiniteSets, TLC

\* ------------------------------------------------------------------ bounds
MaxBounties == 1      \* bounty rows ever inserted
MaxPays     == 2      \* POST /:id/pay requests
MaxClaims   == 2      \* POST /:id/claim requests
MaxSweeps   == 2      \* runs of processClaimedBounties
MaxPayoutCalls == 2   \* direct calls of storage.recordPayout
MaxHooks    == 3      \* webhook deliveries received
CallCap     == 2      \* ledgerCalls counts 0, 1, "2 or more"
MaxTime     == 2      \* block.timestamp runs over 0..MaxTime
MaxCreates  == 3      \* POST /api/community-bounties requests
MaxDeposits == 2      \* createBounty transactions sent to the contract directly
QueueLen    == 2      \* claimed bounties waiting when the relayer starts
MaxBase     == 120    \* base amounts handed to calculateBountyFees: 1..MaxBase
MaxAttemptOps == 6    \* statements run on bounty_attempts
MaxPoolReqs == 2      \* issue-closed events handled by handleIssueClosed
InitialFunds == 300   \* token each user's wallet holds at the start

Users       == {1, 2}           \* user ids; a user's wallet address is its id
Creators    == {1}              \* users who open bounties
Issues      == {5}              \* issue numbers of one repository
Amounts     == {100}            \* base amounts offered
Expiries    == {0, 1}           \* expiresAt offered (0 = no expiry)
Deliveries  == {"d1", "d2"}     \* x-github-delivery ids
SettlementKeys == {5, 6}        \* payout keys offered to storage.recordPayout
CreateIssues == {5, 6}          \* issue numbers offered to the create route

\* accounts other than the users' wallets
SpareWallet   == 6    \* a wallet the owner can rotate the relayer key to
RelayerWallet == 7    \* the relayer address handed to initialize
OwnerWallet   == 8    \* the deployer, owner of the contract
FeeCollector  == 9    \* the fee collector handed to initialize
EscrowAddress == 10   \* address(this)
Accounts      == Users \cup { SpareWallet, RelayerWallet, OwnerWallet,
                              FeeCollector, EscrowAddress }
\* accounts that send transactions to the contract
Senders       == Users \cup { SpareWallet, RelayerWallet, OwnerWallet }

Min(a, b)   == IF a < b THEN a ELSE b

PayReqs     == 1..MaxPays
ClaimReqs   == 1..MaxClaims
Sweeps      == 1..MaxSweeps
HookReqs    == 1..MaxHooks
PayoutCalls == 1..MaxPayoutCalls
CreateReqs  == 1..MaxCreates
PoolReqs    == 1..MaxPoolReqs

\* ------------------------------------------------------------- fee model
\* a roundTo8 that drops the fraction
roundTo8_Truncates(num, den) == num \div den

\* Math.round(x / d) for non-negative x: round half up
roundTo8(num, den) == (2 * num + den) \div (2 * den)

\* a fee model in which the client pays both fees on top of the base amount
calculateBountyFees_BothFeesOnTop(base) ==
  LET clientFee      == roundTo8(base * 25, 1000)
      contributorFee == roundTo8(base * 25, 1000)
      totalFee       == roundTo8(clientFee + contributorFee, 1)
  IN  [ baseBountyAmount     |-> roundTo8(base, 1),
        clientFeeAmount      |-> clientFee,
        contributorFeeAmount |-> contributorFee,
        totalPlatformFee     |-> totalFee,
        totalPaidByClient    |-> roundTo8(base + totalFee, 1),
        contributorPayout    |-> roundTo8(base - contributorFee, 1) ]

\* storage.calculateBountyFees; base is an amount on the grid, so the
\* roundTo8 of a sum or a difference of grid amounts rounds a whole number
calculateBountyFees(base) ==
  LET clientFee      == roundTo8(base * 25, 1000)
      contributorFee == roundTo8(base * 25, 1000)
      totalFee       == roundTo8(clientFee + contributorFee, 1)
      totalPaid      == roundTo8(base + clientFee, 1)
      payout         == roundTo8(base - contributorFee, 1)
  IN  [ baseBountyAmount     |-> roundTo8(base, 1),
        clientFeeAmount      |-> clientFee,
        contributorFeeAmount |-> contributorFee,
        totalPlatformFee     |-> totalFee,
        totalPaidByClient    |-> totalPaid,
        contributorPayout    |-> payout ]

\* ------------------------------------------------------------------ state
VARIABLES
  bounties,     \* community_bounties rows, by id
  rowLock,      \* holder of the SELECT ... FOR UPDATE lock of a row (0 = free)
  claimClock,   \* source of claimed_at values
  payouts,      \* payouts rows
  deliveries,   \* webhook_deliveries rows (delivery ids)
  escrows,      \* CommunityBountyEscrow.bounties, index = on-chain bounty id
  now,          \* block.timestamp
  payReq,       \* POST /api/community-bounties/:id/pay handlers
  claimReq,     \* POST /api/community-bounties/:id/claim handlers
  sweep,        \* processClaimedBounties runs
  sweepsStarted,\* runs started so far (0 = relayer not started)
  ledgerCalls,  \* history: completeCommunityBounty invocations per settlement key
  hookReq,      \* webhook handler invocations
  payoutCall,   \* direct calls of storage.recordPayout
  createReq,    \* POST /api/community-bounties handlers
  relayer,      \* CommunityBountyEscrow.relayer
  balances,     \* token held by each account (one currency)
  lastComplete, \* history: the last completeBounty transaction executed
  feeCall,      \* a call of storage.calculateBountyFees
  attempts,     \* bounty_attempts rows
  attemptReq,   \* statements run on bounty_attempts
  feeRates,     \* CommunityBountyEscrow.platformFeeRate / contributorFeeRate
  poolReq,      \* handleIssueClosed invocations (pool bounties)
  distributed   \* history: blockchain.distributeReward calls that returned, per issue

vars == << bounties, rowLock, claimClock, payouts, deliveries, escrows,
           now, payReq, claimReq, sweep, sweepsStarted, ledgerCalls, hookReq,
           payoutCall, createReq, relayer, balances, lastComplete, feeCall,
           attempts, attemptReq, feeRates, poolReq, distributed >>

\* ids of the rows the community_bounties table has room for
BountyIds == DOMAIN bounties

NoBounty ==
  [ status |-> "none", issue |-> 0, creator |-> 0, base |-> 0, totalPaid |-> 0,
    expiresAt |-> 0, inst |-> FALSE, chainId |-> 0, escrowTx |-> 0,
    claimedBy |-> 0, claimedPr |-> 0, claimedAt |-> 0,
    payoutTx |-> 0, recipient |-> 0 ]

IdlePay   == [ pc |-> "idle", bounty |-> 0, user |-> 0, resp |-> 0,
               chainId |-> 0, tx |-> 0 ]
IdleClaim == [ pc |-> "idle", bounty |-> 0, user |-> 0, pr |-> 0, resp |-> 0,
               err |-> "" ]
IdleSweep == [ pc |-> "idle", queue |-> << >>, snap |-> NoBounty, tx |-> 0,
               transient |-> FALSE, verdict |-> "", fetched |-> 0 ]
IdlePayoutCall == [ pc |-> "idle", row |-> << >>, result |-> "" ]
IdleCreate == [ pc |-> "idle", issue |-> 0, duplicate |-> FALSE, resp |-> 0,
                existing |-> 0 ]
IdleHook  == [ pc |-> "idle", delivery |-> "", first |-> FALSE, failed |-> FALSE,
               existed |-> FALSE, resp |-> 0, worked |-> FALSE ]
NoComplete == [ sender |-> 0, id |-> 0, contributor |-> 0, ok |-> FALSE ]

NoFeeCall  == [ pc |-> "idle", base |-> 0, fees |-> calculateBountyFees(0) ]
AttemptStatuses == { "active", "completed", "abandoned" }
IdlePool   == [ pc |-> "idle", key |-> 0, tx |-> 0 ]

\* no issue-closed event handled, no reward distributed
InitPool ==
  /\ poolReq     = [ q \in PoolReqs |-> IdlePool ]
  /\ distributed = [ k \in SettlementKeys |-> 0 ]

\* no fee calculation requested, an empty bounty_attempts table
InitCalls ==
  /\ feeCall    = NoFeeCall
  /\ attempts   = << >>
  /\ attemptReq = << >>
  /\ InitPool

\* initialize: fee rates in basis points
platformFeeRate    == 50
contributorFeeRate == 50

\* the contract as initialize leaves it, with the users' wallets funded
InitChain ==
  /\ relayer      = RelayerWallet
  /\ feeRates     = [ platform |-> platformFeeRate,
                      contributor |-> contributorFeeRate ]
  /\ balances     = [ a \in Accounts |-> IF a \in Users THEN InitialFunds ELSE 0 ]
  /\ lastComplete = NoComplete

Init ==
  /\ bounties      = [ b \in 1..MaxBounties |-> NoBounty ]
  /\ rowLock       = [ b \in 1..MaxBounties |-> 0 ]
  /\ claimClock    = 0
  /\ payouts       = {}
  /\ deliveries    = {}
  /\ escrows       = << >>
  /\ now           = 0
  /\ payReq        = [ r \in PayReqs |-> IdlePay ]
  /\ claimReq      = [ r \in ClaimReqs |-> IdleClaim ]
  /\ sweep         = [ s \in Sweeps |-> IdleSweep ]
  /\ sweepsStarted = 0
  /\ ledgerCalls   = [ i \in Issues |-> 0 ]
  /\ hookReq       = [ h \in HookReqs |-> IdleHook ]
  /\ payoutCall    = [ c \in PayoutCalls |-> IdlePayoutCall ]
  /\ createReq     = [ r \in CreateReqs |-> IdleCreate ]
  /\ InitChain
  /\ InitCalls

\* ------------------------------------------------------------ bounty store
\* a unique index without the WHERE clause: it covers every row
OutsideIndex_None == {}

\* idx_community_bounties_repo_issue, WHERE status NOT IN (...): the statuses
\* of the rows the index leaves out
OutsideIndex == { "refunded", "expired" }

\* a table without the unique index
ActiveOnIssue_NoIndex(i) == {}

\* idx_community_bounties_repo_issue: rows that count for the unique index
ActiveOnIssue(i) ==
  { b \in BountyIds : /\ bounties[b].status \notin {"none"} \cup OutsideIndex
                      /\ bounties[b].issue = i }

\* storage.updateCommunityBounty: partial update of one row, no status check
updateCommunityBounty(id, data) ==
  [ bounties EXCEPT ![id] = [ f \in DOMAIN NoBounty |->
        IF f \in DOMAIN data THEN data[f] ELSE bounties[id][f] ] ]

\* storage.getClaimedCommunityBounties: claimed rows, oldest claim first
RECURSIVE SortByClaimedAt(_)
SortByClaimedAt(S) ==
  IF S = {} THEN << >>
  ELSE LET first == CHOOSE b \in S :
                      \A c \in S : bounties[b].claimedAt <= bounties[c].claimedAt
       IN  << first >> \o SortByClaimedAt(S \ {first})

\* a query that orders by claimed_at DESC
getClaimedCommunityBounties_NewestFirst ==
  LET q == SortByClaimedAt({ b \in BountyIds : bounties[b].status = "claimed" })
  IN  [ k \in 1..Len(q) |-> q[Len(q) + 1 - k] ]

getClaimedCommunityBounties ==
  SortByClaimedAt({ b \in BountyIds : bounties[b].status = "claimed" })

\* POST /api/community-bounties: validate, then insert a pending_payment row.
\* The fee columns of a row are NOT NULL and tied to the base amount by the
\* CHECK constraints of migration 0023 (total_paid_by_client = base + client fee)
CreateBountyWith(expiries) ==
  \E u \in Creators, i \in Issues, amt \in Amounts, e \in expiries, ins \in BOOLEAN :
    LET id   == Cardinality({ b \in BountyIds : bounties[b].status # "none" }) + 1
        fees == calculateBountyFees(amt)
    IN  /\ id \in BountyIds
        /\ amt > 0
        /\ ActiveOnIssue(i) = {}
        /\ bounties' = [ bounties EXCEPT ![id] =
              [ NoBounty EXCEPT !.status = "pending_payment", !.issue = i,
                                !.creator = u, !.base = fees.baseBountyAmount,
                                !.totalPaid = fees.totalPaidByClient,
                                !.expiresAt = e, !.inst = ins ] ]
        /\ UNCHANGED << rowLock, claimClock, payouts, deliveries, escrows,
                        now, payReq, claimReq, sweep, sweepsStarted, ledgerCalls,
                        hookReq,
                    payoutCall, createReq, relayer, balances, lastComplete, feeCall,
                    attempts, attemptReq, feeRates,
                    poolReq, distributed >>


\* the status the create route answers when storage.createCommunityBounty
\* throws: the error of the unique index is neither a ZodError nor a
\* BusinessError
AfterInsertThrow == 500

\* POST /api/community-bounties as a request: check the user's wallet, then
\* storage.createCommunityBounty; the INSERT is one statement, so two requests
\* for one issue are ordered by the index
CreateRequestWith(r, expiries) ==
  \E u \in Creators, i \in CreateIssues, amt \in Amounts, wallet \in BOOLEAN,
     e \in expiries :
    LET id   == Cardinality({ b \in BountyIds : bounties[b].status # "none" }) + 1
        fees == calculateBountyFees(amt)
        dup  == ActiveOnIssue(i) # {}
    IN  /\ createReq[r].pc = "idle"
        /\ \A q \in CreateReqs : q < r => createReq[q].pc # "idle"
        /\ id \in BountyIds
        /\ IF ~wallet \/ amt <= 0
           THEN /\ createReq' = [ createReq EXCEPT ![r] =
                      [ IdleCreate EXCEPT !.pc = "done", !.issue = i, !.resp = 400 ] ]
                /\ UNCHANGED bounties
           ELSE IF dup
           THEN /\ createReq' = [ createReq EXCEPT ![r] =
                      [ IdleCreate EXCEPT !.pc = "done", !.issue = i,
                                          !.duplicate = TRUE,
                                          !.resp = AfterInsertThrow ] ]
                /\ UNCHANGED bounties
           ELSE /\ createReq' = [ createReq EXCEPT ![r] =
                      [ IdleCreate EXCEPT !.pc = "done", !.issue = i, !.resp = 201 ] ]
                /\ bounties' = [ bounties EXCEPT ![id] =
                      [ NoBounty EXCEPT !.status = "pending_payment", !.issue = i,
                                        !.creator = u, !.base = fees.baseBountyAmount,
                                        !.totalPaid = fees.totalPaidByClient,
                                        !.expiresAt = e ] ]
        /\ UNCHANGED << rowLock, claimClock, payouts, deliveries, escrows,
                        now, payReq, claimReq, sweep, sweepsStarted, ledgerCalls,
                        hookReq, payoutCall, relayer, balances, lastComplete, feeCall,
                    attempts, attemptReq, feeRates,
                    poolReq, distributed >>

\* a create request for a bounty without expiry
CreateRequest(r) == CreateRequestWith(r, {0})

\* a create request that may carry an expiresAt
CreateExpiringRequest(r) == CreateRequestWith(r, Expiries)

\* ----------------------------------------------- CommunityBountyEscrow.sol
\* mapping(uint256 => Bounty): an id never written reads as the zero struct,
\* whose status is the first enum value, ACTIVE
EmptyEscrow == [ creator |-> 0, amount |-> 0, expiresAt |-> 0, status |-> "ACTIVE" ]

EscrowAt(id) == IF id \in 1..Len(escrows) THEN escrows[id] ELSE EmptyEscrow

\* the hash of the transaction that created escrow id, that completed it and
\* that refunded it: an escrow is created once and leaves ACTIVE at most once
DepositTx(id) == 100 + id
PayoutTx(id)  == 200 + id
RefundTx(id)  == 300 + id

\* the fee rates initialize sets, in basis points
\* safeTransfer / transfer of amt from one account to another
Transfer(bal, from, to, amt) ==
  [ a \in DOMAIN bal |-> bal[a] - (IF a = from THEN amt ELSE 0)
                               + (IF a = to THEN amt ELSE 0) ]

\* the requires of createBounty
CanCreateEscrow(amount, expiresAt) ==
  /\ amount > 0
  /\ (expiresAt > 0 => expiresAt > now)

\* createBounty: the sender's tokens move into the contract (a sender who
\* does not hold the amount makes the transaction revert) and the bounty is
\* stored under the next id
CanDeposit(sender, amount, expiresAt) ==
  /\ CanCreateEscrow(amount, expiresAt)
  /\ balances[sender] >= amount

DepositedEscrows(sender, amount, expiresAt) ==
  Append(escrows, [ creator |-> sender, amount |-> amount,
                    expiresAt |-> expiresAt, status |-> "ACTIVE" ])

\* a contract whose completeBounty anyone may call
onlyRelayer_Anyone(sender) == TRUE

\* modifier onlyRelayer
onlyRelayer(sender) == sender = relayer

\* view isBountyClaimable: active and not expired
isBountyClaimable(id) ==
  IF EscrowAt(id).status # "ACTIVE" THEN FALSE
  ELSE IF EscrowAt(id).expiresAt = 0 THEN TRUE
  ELSE now <= EscrowAt(id).expiresAt

\* a completeBounty without the expiry check
CanCompleteEscrow_IgnoresExpiry(id, contributor) ==
  /\ EscrowAt(id).status = "ACTIVE"
  /\ contributor # 0

\* the requires of completeBounty, called by the relayer wallet
CanCompleteEscrow(id, contributor) ==
  /\ EscrowAt(id).status = "ACTIVE"
  /\ contributor # 0
  /\ (EscrowAt(id).expiresAt > 0 => now <= EscrowAt(id).expiresAt)

\* a refundBounty without the status check
CanRefundEscrow_AnyStatus(id, sender) ==
  /\ sender = EscrowAt(id).creator
  /\ EscrowAt(id).expiresAt > 0
  /\ now > EscrowAt(id).expiresAt

\* the requires of refundBounty
CanRefundEscrow(id, sender) ==
  /\ sender = EscrowAt(id).creator
  /\ EscrowAt(id).status = "ACTIVE"
  /\ EscrowAt(id).expiresAt > 0
  /\ now > EscrowAt(id).expiresAt

\* a completeBounty that pays the whole amount out and the fees on top
CompletedBalances_FeesOnTop(id, contributor) ==
  LET amount         == escrows[id].amount
      platformFee    == (amount * feeRates.platform) \div 10000
      contributorFee == (amount * feeRates.contributor) \div 10000
  IN  Transfer(Transfer(balances, EscrowAddress, contributor, amount),
               EscrowAddress, FeeCollector, platformFee + contributorFee)

\* the balances after completeBounty has paid escrow id out: the net amount
\* to the contributor, both fees to the fee collector
CompletedBalances(id, contributor) ==
  LET amount         == escrows[id].amount
      platformFee    == (amount * feeRates.platform) \div 10000
      contributorFee == (amount * feeRates.contributor) \div 10000
      netAmount      == amount - platformFee - contributorFee
  IN  Transfer(Transfer(balances, EscrowAddress, contributor, netAmount),
               EscrowAddress, FeeCollector, platformFee + contributorFee)

\* a refund that keeps the fee share of the deposit
RefundAmount_LessFee(e) ==
  e.amount - (e.amount * (platformFeeRate + contributorFeeRate)) \div 10000

\* the amount refundBounty sends back to the creator
RefundAmount(e) == e.amount

\* refundBounty called on the contract by an account
RefundBounty ==
  \E id \in 1..Len(escrows), sender \in Users :
    /\ CanRefundEscrow(id, sender)
    /\ escrows' = [ escrows EXCEPT ![id].status = "REFUNDED" ]
    /\ balances' = Transfer(balances, EscrowAddress, escrows[id].creator,
                            RefundAmount(escrows[id]))
    /\ UNCHANGED << bounties, rowLock, claimClock, payouts, deliveries, now,
                    payReq, claimReq, sweep, sweepsStarted, ledgerCalls, hookReq,
                    payoutCall, createReq, relayer, lastComplete, feeCall,
                    attempts, attemptReq, feeRates,
                    poolReq, distributed >>

\* createBounty sent to the contract by a user's wallet
CreateBountyCall ==
  \E sender \in Users, amount \in Amounts, expiresAt \in Expiries :
    /\ Len(escrows) < MaxDeposits
    /\ CanDeposit(sender, amount, expiresAt)
    /\ escrows' = DepositedEscrows(sender, amount, expiresAt)
    /\ balances' = Transfer(balances, sender, EscrowAddress, amount)
    /\ UNCHANGED << bounties, rowLock, claimClock, payouts, deliveries, now,
                    payReq, claimReq, sweep, sweepsStarted, ledgerCalls, hookReq,
                    payoutCall, createReq, relayer, lastComplete, feeCall,
                    attempts, attemptReq, feeRates,
                    poolReq, distributed >>

\* completeBounty(id, contributor) sent to the contract by an account: the
\* modifier and the requires pass and the escrow is paid out, or the
\* transaction reverts
CompleteBountyCallBy(senders) ==
  \E sender \in senders, id \in 1..Len(escrows), contributor \in Users \cup {0} :
    LET ok == onlyRelayer(sender) /\ CanCompleteEscrow(id, contributor)
    IN  /\ lastComplete' = [ sender |-> sender, id |-> id,
                             contributor |-> contributor, ok |-> ok ]
        /\ IF ok
           THEN /\ escrows' = [ escrows EXCEPT ![id].status = "COMPLETED" ]
                /\ balances' = CompletedBalances(id, contributor)
           ELSE UNCHANGED << escrows, balances >>
        /\ UNCHANGED << bounties, rowLock, claimClock, payouts, deliveries, now,
                        payReq, claimReq, sweep, sweepsStarted, ledgerCalls,
                        hookReq, payoutCall, createReq, relayer, feeCall,
                        attempts, attemptReq, feeRates,
                    poolReq, distributed >>

\* completeBounty sent by any account
CompleteBountyCall == CompleteBountyCallBy(Senders)

\* completeBounty sent by the relayer wallet of initialize
RelayerCompletes == CompleteBountyCallBy({ RelayerWallet })

\* setRelayer(newRelayer) sent by an account: onlyOwner, and not address(0)
SetRelayerCall ==
  \E sender \in Senders, newRelayer \in { 0, SpareWallet, RelayerWallet } :
    /\ sender = OwnerWallet
    /\ newRelayer # 0
    /\ relayer' = newRelayer
    /\ UNCHANGED << bounties, rowLock, claimClock, payouts, deliveries, escrows,
                    now, payReq, claimReq, sweep, sweepsStarted, ledgerCalls,
                    hookReq, payoutCall, createReq, balances, lastComplete,
                    feeCall, attempts, attemptReq, feeRates,
                    poolReq, distributed >>

\* fee rate pairs (basis points) offered to setFeeRates
FeeRatePairs == { << 50, 50 >>, << 500, 500 >>, << 600, 500 >> }

\* setFeeRates(newPlatformFeeRate, newContributorFeeRate) sent by an account:
\* onlyOwner, and the two rates together at most 10%
SetFeeRatesCall ==
  \E sender \in Senders, rates \in FeeRatePairs :
    /\ sender = OwnerWallet
    /\ rates[1] + rates[2] <= 1000
    /\ feeRates' = [ platform |-> rates[1], contributor |-> rates[2] ]
    /\ UNCHANGED << bounties, rowLock, claimClock, payouts, deliveries, escrows,
                    now, payReq, claimReq, sweep, sweepsStarted, ledgerCalls,
                    hookReq, payoutCall, createReq, relayer, balances,
                    lastComplete, feeCall, attempts, attemptReq, poolReq,
                    distributed >>

\* block.timestamp advances
Tick ==
  /\ now < MaxTime
  /\ now' = now + 1
  /\ UNCHANGED << bounties, rowLock, claimClock, payouts, deliveries, escrows,
                  payReq, claimReq, sweep, sweepsStarted, ledgerCalls,
                  hookReq,
                    payoutCall, createReq, relayer, balances, lastComplete, feeCall,
                    attempts, attemptReq, feeRates,
                    poolReq, distributed >>

\* ------------------------------------------------ refund and expiry (store)
\* Store.recordRefund after Ledger.refundEscrow: funded -> refunded, only
\* past the expiry and once the contract has refunded the deposit
RecordRefund ==
  \E b \in BountyIds :
    /\ bounties[b].status = "funded"
    /\ bounties[b].expiresAt > 0
    /\ now > bounties[b].expiresAt
    /\ EscrowAt(bounties[b].chainId).status = "REFUNDED"
    /\ rowLock[b] = 0
    /\ bounties' = updateCommunityBounty(b, [ status |-> "refunded" ])
    /\ UNCHANGED << rowLock, claimClock, payouts, deliveries, escrows, now,
                    payReq, claimReq, sweep, sweepsStarted, ledgerCalls,
                    hookReq, payoutCall, createReq, relayer, balances,
                    lastComplete, feeCall, attempts, attemptReq, feeRates,
                    poolReq, distributed >>

\* status lifecycle, funded -> expired: a funded bounty that passed its expiry
\* date without completion
MarkExpired ==
  \E b \in BountyIds :
    /\ bounties[b].status = "funded"
    /\ bounties[b].expiresAt > 0
    /\ now > bounties[b].expiresAt
    /\ rowLock[b] = 0
    /\ bounties' = updateCommunityBounty(b, [ status |-> "expired" ])
    /\ UNCHANGED << rowLock, claimClock, payouts, deliveries, escrows, now,
                    payReq, claimReq, sweep, sweepsStarted, ledgerCalls,
                    hookReq, payoutCall, createReq, relayer, balances,
                    lastComplete, feeCall, attempts, attemptReq, feeRates,
                    poolReq, distributed >>

\* ------------------------------------- POST /api/community-bounties/:id/pay
\* a pay route without the creator check
PayCheck_AnyUser(row, u) ==
  IF row.status = "none" THEN 404
  ELSE IF row.status # "pending_payment" THEN 400
  ELSE 0

\* the checks of the pay route on the row it fetched: 404 not found, 403 not
\* the creator, 400 not pending_payment; 0 = go on to the ledger
PayCheck(row, u) ==
  IF row.status = "none" THEN 404
  ELSE IF row.creator # u THEN 403
  ELSE IF row.status # "pending_payment" THEN 400
  ELSE 0

\* fetch the bounty, check creator and status
PayStart(r) ==
  \E b \in BountyIds, u \in Users :
    /\ payReq[r].pc = "idle"
    /\ \A q \in PayReqs : q < r => payReq[q].pc # "idle"
    /\ LET row  == bounties[b]
           resp == PayCheck(row, u)
       IN  payReq' = [ payReq EXCEPT ![r] =
             [ IdlePay EXCEPT !.pc = IF resp = 0 THEN "ledger" ELSE "done",
                              !.bounty = b, !.resp = resp,
                              !.user = IF resp \in {0, 403} THEN u ELSE 0 ] ]
    /\ UNCHANGED << bounties, rowLock, claimClock, payouts, deliveries, escrows,
                    now, claimReq, sweep, sweepsStarted, ledgerCalls,
                    hookReq,
                    payoutCall, createReq, relayer, balances, lastComplete, feeCall,
                    attempts, attemptReq, feeRates,
                    poolReq, distributed >>

\* a pay route that still locks the advertised amount
totalAmountToPay_BaseOnly(row) == row.base

\* amount handed to blockchain.createCommunityBountyWith*: totalPaidByClient
totalAmountToPay(row) == IF row.totalPaid # 0 THEN row.totalPaid ELSE row.base

\* a pay handler that treats a thrown ledger call like a returned one
AfterLedger_IgnoresThrow(returned) == "update"

\* where the pay handler goes after the ledger call: on to the store update
\* when the call returned, out through the catch when it threw
AfterLedger(returned) == IF returned THEN "update" ELSE "done"

\* await blockchain.createCommunityBountyWith*(...): the deposit is mined, or
\* the call throws (revert, insufficient balance, RPC failure, timeout)
PayLedger(r) ==
  \E rpcOk \in BOOLEAN :
    LET row == bounties[payReq[r].bounty]
        amt == totalAmountToPay(row)
    IN  /\ payReq[r].pc = "ledger"
        /\ IF rpcOk /\ CanDeposit(payReq[r].user, amt, row.expiresAt)
           THEN /\ escrows' = DepositedEscrows(payReq[r].user, amt, row.expiresAt)
                /\ balances' = Transfer(balances, payReq[r].user, EscrowAddress, amt)
                /\ payReq' = [ payReq EXCEPT ![r].pc = AfterLedger(TRUE),
                                             ![r].chainId = Len(escrows) + 1,
                                             ![r].tx = DepositTx(Len(escrows) + 1) ]
           ELSE /\ payReq' = [ payReq EXCEPT ![r].pc = AfterLedger(FALSE),
                                             ![r].resp = 500, ![r].user = 0 ]
                /\ UNCHANGED << escrows, balances >>
        /\ UNCHANGED << bounties, rowLock, claimClock, payouts, deliveries, now,
                        claimReq, sweep, sweepsStarted, ledgerCalls, hookReq,
                        payoutCall, createReq, relayer, lastComplete, feeCall,
                        attempts, attemptReq, feeRates,
                    poolReq, distributed >>

\* await storage.updateCommunityBounty(bountyId, { status: 'funded', ... })
PayUpdate(r) ==
  /\ payReq[r].pc = "update"
  /\ rowLock[payReq[r].bounty] = 0
  /\ bounties' = updateCommunityBounty(payReq[r].bounty,
        [ status |-> "funded", escrowTx |-> payReq[r].tx,
          chainId |-> payReq[r].chainId ])
  /\ payReq' = [ payReq EXCEPT ![r].pc = "done", ![r].resp = 200,
                               ![r].chainId = 0, ![r].tx = 0, ![r].user = 0 ]
  /\ UNCHANGED << rowLock, claimClock, payouts, deliveries, escrows, now,
                  claimReq, sweep, sweepsStarted, ledgerCalls, hookReq,
                    payoutCall, createReq, relayer, balances, lastComplete, feeCall,
                    attempts, attemptReq, feeRates,
                    poolReq, distributed >>

\* ----------------------------------- POST /api/community-bounties/:id/claim
\* the pull request number request r submits
PrOf(r) == 41 + r

\* fetch the bounty, check status, check the user's linked account and wallet
ClaimStart(r) ==
  \E b \in BountyIds, u \in Users, linked \in BOOLEAN :
    /\ claimReq[r].pc = "idle"
    /\ \A q \in ClaimReqs : q < r => claimReq[q].pc # "idle"
    /\ LET row  == bounties[b]
           resp == IF row.status = "none" THEN 404
                   ELSE IF row.status # "funded" THEN 400
                   ELSE IF ~linked THEN 400
                   ELSE 0
       IN  claimReq' = [ claimReq EXCEPT ![r] =
             [ pc |-> IF resp = 0 THEN "lock" ELSE "done",
               bounty |-> b, user |-> IF resp = 0 THEN u ELSE 0,
               pr |-> PrOf(r), resp |-> resp,
               err |-> IF resp = 404 THEN "not_found"
                       ELSE IF row.status # "funded" THEN "not_claimable"
                       ELSE IF resp = 400 THEN "not_linked"
                       ELSE "" ] ]
    /\ UNCHANGED << bounties, rowLock, claimClock, payouts, deliveries, escrows,
                    now, payReq, sweep, sweepsStarted, ledgerCalls,
                    hookReq,
                    payoutCall, createReq, relayer, balances, lastComplete, feeCall,
                    attempts, attemptReq, feeRates,
                    poolReq, distributed >>

\* a claim route that lets the throw of the atomic claim reach the outer catch
AfterClaimThrow_Generic == 500

\* the status the claim route answers when claimCommunityBountyAtomic throws
AfterClaimThrow == 400

\* may a transaction take the row lock of bounty b?
LockFree(b) == rowLock[b] = 0

\* claimCommunityBountyAtomic, step 1: SELECT ... FOR UPDATE
ClaimLock(r) ==
  /\ claimReq[r].pc = "lock"
  /\ LockFree(claimReq[r].bounty)
  /\ rowLock' = [ rowLock EXCEPT ![claimReq[r].bounty] = r ]
  /\ claimReq' = [ claimReq EXCEPT ![r].pc = "txn" ]
  /\ UNCHANGED << bounties, claimClock, payouts, deliveries, escrows,
                  now, payReq, sweep, sweepsStarted, ledgerCalls, hookReq,
                    payoutCall, createReq, relayer, balances, lastComplete, feeCall,
                    attempts, attemptReq, feeRates,
                    poolReq, distributed >>

\* claimCommunityBountyAtomic, steps 2 and 3 and commit: check funded, write
\* the claim; a throw rolls back and the route answers 400
ClaimCommit(r) ==
  LET b == claimReq[r].bounty IN
  /\ claimReq[r].pc = "txn"
  /\ IF bounties[b].status = "funded"
     THEN /\ bounties' = updateCommunityBounty(b,
                [ status |-> "claimed", claimedBy |-> claimReq[r].user,
                  claimedPr |-> claimReq[r].pr, claimedAt |-> claimClock + 1 ])
          /\ claimClock' = claimClock + 1
          /\ claimReq' = [ claimReq EXCEPT ![r].pc = "done", ![r].resp = 200,
                                           ![r].user = 0 ]
     ELSE /\ claimReq' = [ claimReq EXCEPT ![r].pc = "done",
                                           ![r].resp = AfterClaimThrow,
                                           ![r].err = "not_claimable",
                                           ![r].user = 0 ]
          /\ UNCHANGED << bounties, claimClock, relayer, balances, lastComplete, feeCall,
                    attempts, attemptReq, feeRates,
                    poolReq, distributed >>
  /\ rowLock' = [ rowLock EXCEPT ![b] = IF rowLock[b] = r THEN 0 ELSE rowLock[b] ]
  /\ UNCHANGED << payouts, deliveries, escrows, now, payReq, sweep,
                  sweepsStarted, ledgerCalls, hookReq,
                    payoutCall, createReq, relayer, balances, lastComplete, feeCall,
                    attempts, attemptReq, feeRates,
                    poolReq, distributed >>

\* ------------------------------------------------ calculateBountyFees call
\* a caller asks for the fee breakdown of feeCall.base
CalculateFees ==
  /\ feeCall.pc = "idle"
  /\ feeCall' = [ pc |-> "done", base |-> feeCall.base,
                  fees |-> calculateBountyFees(feeCall.base) ]
  /\ UNCHANGED << bounties, rowLock, claimClock, payouts, deliveries, escrows,
                  now, payReq, claimReq, sweep, sweepsStarted, ledgerCalls,
                  hookReq, payoutCall, createReq, relayer, balances,
                  lastComplete, attempts, attemptReq, feeRates,
                    poolReq, distributed >>

\* ---------------------------------------------------------- bounty_attempts
\* a table without idx_bounty_attempts_unique_active
AttemptConflict_NoIndex(u, i, except) == FALSE

\* idx_bounty_attempts_unique_active: is there an active row of user u on
\* issue i, other than row except?
AttemptConflict(u, i, except) ==
  \E id \in 1..Len(attempts) :
    /\ id # except
    /\ attempts[id].user = u
    /\ attempts[id].issue = i
    /\ attempts[id].status = "active"

\* INSERT INTO bounty_attempts (github_username, ..., github_issue_number):
\* status defaults to 'active'; the unique index rejects a second active row
InsertAttempt ==
  \E u \in Users, i \in CreateIssues :
    LET ok == ~AttemptConflict(u, i, 0)
    IN  /\ Len(attemptReq) < MaxAttemptOps
        /\ attempts' = IF ok
                       THEN Append(attempts,
                                   [ user |-> u, issue |-> i, status |-> "active" ])
                       ELSE attempts
        /\ attemptReq' = Append(attemptReq,
              [ op |-> "insert", user |-> u, issue |-> i, row |-> 0,
                status |-> "active", ok |-> ok ])
        /\ UNCHANGED << bounties, rowLock, claimClock, payouts, deliveries,
                        escrows, now, payReq, claimReq, sweep, sweepsStarted,
                        ledgerCalls, hookReq, payoutCall, createReq, relayer,
                        balances, lastComplete, feeCall, feeRates,
                    poolReq, distributed >>

\* UPDATE bounty_attempts SET status = st WHERE id = row: the status CHECK
\* admits the three statuses; the unique index rejects a second active row
UpdateAttemptStatus ==
  \E id \in 1..Len(attempts), st \in AttemptStatuses :
    LET ok == st = "active" =>
                ~AttemptConflict(attempts[id].user, attempts[id].issue, id)
    IN  /\ Len(attemptReq) < MaxAttemptOps
        /\ attempts' = IF ok THEN [ attempts EXCEPT ![id].status = st ]
                       ELSE attempts
        /\ attemptReq' = Append(attemptReq,
              [ op |-> "update", user |-> attempts[id].user,
                issue |-> attempts[id].issue, row |-> id, status |-> st,
                ok |-> ok ])
        /\ UNCHANGED << bounties, rowLock, claimClock, payouts, deliveries,
                        escrows, now, payReq, claimReq, sweep, sweepsStarted,
                        ledgerCalls, hookReq, payoutCall, createReq, relayer,
                        balances, lastComplete, feeCall, feeRates,
                    poolReq, distributed >>

\* ------------------------------------------------------- payouts (storage)
\* the settlement key of a community bounty: ("community-<owner>-<repo>", issue);
\* the model has one repository, so the issue number is the key
PayoutKey(row) == row.issue

\* uq_payouts_repo_issue
PayoutExists(key) == \E p \in payouts : p.key = key

\* a payouts table without uq_payouts_repo_issue
recordPayout_NoUniqueKey(p) == payouts \cup {p}

\* storage.recordPayout: insert; throws on the unique constraint
recordPayout(p) == IF PayoutExists(p.key) THEN payouts ELSE payouts \cup {p}

\* ------------------------------------------------- communityBountyRelayer.ts
SweepsRunning == { s \in Sweeps : sweep[s].pc \notin {"idle", "done"} }

\* startCommunityBountyRelayer: the immediate run
StartRelayer ==
  /\ sweepsStarted = 0
  /\ sweepsStarted' = 1
  /\ sweep' = [ sweep EXCEPT ![1].pc = "fetch" ]
  /\ UNCHANGED << bounties, rowLock, claimClock, payouts, deliveries, escrows,
                  now, payReq, claimReq, ledgerCalls, hookReq,
                    payoutCall, createReq, relayer, balances, lastComplete, feeCall,
                    attempts, attemptReq, feeRates,
                    poolReq, distributed >>

\* the setInterval callback: every intervalMs a run starts
IntervalFire ==
  /\ sweepsStarted \in 1..(MaxSweeps - 1)
  /\ sweepsStarted' = sweepsStarted + 1
  /\ sweep' = [ sweep EXCEPT ![sweepsStarted + 1].pc = "fetch" ]
  /\ UNCHANGED << bounties, rowLock, claimClock, payouts, deliveries, escrows,
                  now, payReq, claimReq, ledgerCalls, hookReq,
                    payoutCall, createReq, relayer, balances, lastComplete, feeCall,
                    attempts, attemptReq, feeRates,
                    poolReq, distributed >>

\* a processClaimedBounty whose catch throws the error on
AfterCatch_Rethrows == "thrown"

\* where a sweep is after the catch of processClaimedBounty (log, no throw):
\* the function returns and the loop goes on with the delay
AfterCatch == "delay"

\* where a sweep is after the catch of processClaimedBounties (log, "don't
\* throw - let the interval continue"): the run is over
AfterSweepCatch == "done"

\* processClaimedBounties, step 1: fetch the claimed bounties; a store error
\* lands in the catch of processClaimedBounties
SweepFetch(s) ==
  \E dbOk \in BOOLEAN :
    /\ sweep[s].pc = "fetch"
    /\ LET q == getClaimedCommunityBounties
       IN  sweep' = IF dbOk
                    THEN [ sweep EXCEPT ![s].queue = q, ![s].fetched = Len(q),
                                        ![s].pc = IF q = << >> THEN "done"
                                                  ELSE "read" ]
                    ELSE [ sweep EXCEPT ![s].pc = AfterSweepCatch ]
  /\ UNCHANGED << bounties, rowLock, claimClock, payouts, deliveries, escrows,
                  now, payReq, claimReq, sweepsStarted, ledgerCalls,
                  hookReq,
                    payoutCall, createReq, relayer, balances, lastComplete, feeCall,
                    attempts, attemptReq, feeRates,
                    poolReq, distributed >>

\* a processClaimedBounty that trusts the list it was started from
AfterRead_TrustsList(row) ==
  IF row.claimedPr = 0 \/ row.claimedBy = 0 THEN "fail"
  ELSE IF ~row.inst THEN "fail"
  ELSE "verify"

\* the checks of processClaimedBounty on the row it has read: not claimed ->
\* return; a missing claim field or installation id -> failed_verification
AfterRead(row) ==
  IF row.status # "claimed" THEN "delay"
  ELSE IF row.claimedPr = 0 \/ row.claimedBy = 0 THEN "fail"
  ELSE IF ~row.inst THEN "fail"
  ELSE "verify"

\* processClaimedBounty, step 1: re-read the row, check status and fields
SweepRead(s) ==
  LET row == bounties[Head(sweep[s].queue)] IN
  /\ sweep[s].pc = "read"
  /\ sweep' = [ sweep EXCEPT ![s].snap = row, ![s].pc = AfterRead(row) ]
  /\ UNCHANGED << bounties, rowLock, claimClock, payouts, deliveries, escrows,
                  now, payReq, claimReq, sweepsStarted, ledgerCalls,
                  hookReq,
                    payoutCall, createReq, relayer, balances, lastComplete, feeCall,
                    attempts, attemptReq, feeRates,
                    poolReq, distributed >>

VerifyOutcomes == { "merged", "not_merged", "transient", "throws" }

\* a relayer that pays whenever the verifier answered at all
AfterVerify_PaysUnverified(outcome, contributorOk) ==
  IF outcome = "throws" THEN AfterCatch
  ELSE IF ~contributorOk THEN "fail"
  ELSE "ledger"

\* where processClaimedBounty goes after verifyPRMergedAndClosesIssue and the
\* contributor lookup: a result with verified = false, whatever its reason,
\* marks the bounty failed; a thrown error lands in the catch
AfterVerify(outcome, contributorOk) ==
  IF outcome = "throws" THEN AfterCatch
  ELSE IF outcome # "merged" THEN "fail"
  ELSE IF ~contributorOk THEN "fail"
  ELSE "ledger"

\* processClaimedBounty, steps 2 and 3
SweepVerify(s) ==
  \E outcome \in VerifyOutcomes, contributorOk \in BOOLEAN :
    /\ sweep[s].pc = "verify"
    /\ sweep' = [ sweep EXCEPT ![s].pc = AfterVerify(outcome, contributorOk),
                               ![s].transient = (outcome = "transient"),
                               ![s].verdict = outcome ]
    /\ UNCHANGED << bounties, rowLock, claimClock, payouts, deliveries, escrows,
                    now, payReq, claimReq, sweepsStarted, ledgerCalls,
                    hookReq,
                    payoutCall, createReq, relayer, balances, lastComplete, feeCall,
                    attempts, attemptReq, feeRates,
                    poolReq, distributed >>

\* await storage.updateCommunityBounty(bountyId, { status: 'failed_verification' })
SweepMarkFailed(s) ==
  LET b == Head(sweep[s].queue) IN
  /\ sweep[s].pc = "fail"
  /\ rowLock[b] = 0
  /\ bounties' = updateCommunityBounty(b, [ status |-> "failed_verification" ])
  /\ sweep' = [ sweep EXCEPT ![s].pc = "delay" ]
  /\ UNCHANGED << rowLock, claimClock, payouts, deliveries, escrows, now,
                  payReq, claimReq, sweepsStarted, ledgerCalls, hookReq,
                    payoutCall, createReq, relayer, balances, lastComplete, feeCall,
                    attempts, attemptReq, feeRates,
                    poolReq, distributed >>

\* a relayer that goes on to step 5 whether or not the ledger call returned
AfterCompletion_IgnoresThrow(returned) == "payout"

\* where processClaimedBounty goes after the ledger call: on to step 5 when it
\* returned, out through the catch (log only) when it threw
AfterCompletion(returned) == IF returned THEN "payout" ELSE AfterCatch

\* processClaimedBounty, step 4: await blockchain.completeCommunityBounty(...)
\* with the on-chain id of the row read in step 1; a revert or an RPC failure
\* throws into the catch
SweepLedger(s) ==
  \E rpcOk \in BOOLEAN :
    LET snap == sweep[s].snap
        key  == PayoutKey(snap)
    IN  /\ sweep[s].pc = "ledger"
        /\ ledgerCalls' = [ ledgerCalls EXCEPT ![key] = Min(@ + 1, CallCap) ]
        /\ IF rpcOk /\ onlyRelayer(RelayerWallet)
                    /\ CanCompleteEscrow(snap.chainId, snap.claimedBy)
           THEN /\ escrows' = [ escrows EXCEPT ![snap.chainId].status = "COMPLETED" ]
                /\ balances' = CompletedBalances(snap.chainId, snap.claimedBy)
                /\ sweep' = [ sweep EXCEPT ![s].pc = AfterCompletion(TRUE),
                                           ![s].tx = PayoutTx(snap.chainId) ]
           ELSE /\ sweep' = [ sweep EXCEPT ![s].pc = AfterCompletion(FALSE) ]
                /\ UNCHANGED << escrows, balances >>
        /\ lastComplete' = IF rpcOk
                           THEN [ sender |-> RelayerWallet, id |-> snap.chainId,
                                  contributor |-> snap.claimedBy,
                                  ok |-> /\ onlyRelayer(RelayerWallet)
                                         /\ CanCompleteEscrow(snap.chainId,
                                                              snap.claimedBy) ]
                           ELSE lastComplete
        /\ UNCHANGED << bounties, rowLock, claimClock, payouts, deliveries, now,
                        payReq, claimReq, sweepsStarted, hookReq,
                        payoutCall, createReq, relayer, feeCall,
                        attempts, attemptReq, feeRates,
                    poolReq, distributed >>

\* the payout row processClaimedBounty builds in step 5
PayoutRow(snap, tx) ==
  LET fees == calculateBountyFees(snap.base)
  IN  [ key               |-> PayoutKey(snap),
        recipient         |-> snap.claimedBy,
        baseBountyAmount  |-> fees.baseBountyAmount,
        contributorFee    |-> fees.contributorFeeAmount,
        contributorPayout |-> fees.contributorPayout,
        tx                |-> tx ]

\* processClaimedBounty, step 5: try { recordPayout } catch { log, continue }
SweepRecordPayout(s) ==
  \E dbOk \in BOOLEAN :
    /\ sweep[s].pc = "payout"
    /\ payouts' = IF dbOk THEN recordPayout(PayoutRow(sweep[s].snap, sweep[s].tx))
                  ELSE payouts
    /\ sweep' = [ sweep EXCEPT ![s].pc = "complete" ]
    /\ UNCHANGED << bounties, rowLock, claimClock, deliveries, escrows,
                    now, payReq, claimReq, sweepsStarted, ledgerCalls, hookReq,
                    payoutCall, createReq, relayer, balances, lastComplete, feeCall,
                    attempts, attemptReq, feeRates,
                    poolReq, distributed >>

\* processClaimedBounty, step 6: mark the row completed; a store error lands
\* in the catch and the row stays as it is
SweepComplete(s) ==
  \E dbOk \in BOOLEAN :
    LET b == Head(sweep[s].queue) IN
    /\ sweep[s].pc = "complete"
    /\ rowLock[b] = 0
    /\ bounties' = IF dbOk
                   THEN updateCommunityBounty(b,
                          [ status |-> "completed", payoutTx |-> sweep[s].tx,
                            recipient |-> sweep[s].snap.claimedBy ])
                   ELSE bounties
    /\ sweep' = [ sweep EXCEPT ![s].pc = IF dbOk THEN "delay" ELSE AfterCatch ]
    /\ UNCHANGED << rowLock, claimClock, payouts, deliveries, escrows,
                    now, payReq, claimReq, sweepsStarted, ledgerCalls, hookReq,
                    payoutCall, createReq, relayer, balances, lastComplete, feeCall,
                    attempts, attemptReq, feeRates,
                    poolReq, distributed >>

\* the 2 second delay, then the next bounty of the list or the end of the run
SweepDelay(s) ==
  /\ sweep[s].pc = "delay"
  /\ sweep' = [ sweep EXCEPT
        ![s] = [ IdleSweep EXCEPT
                   !.queue = Tail(sweep[s].queue),
                   !.fetched = sweep[s].fetched,
                   !.pc = IF Tail(sweep[s].queue) = << >> THEN "done" ELSE "read" ] ]
  /\ UNCHANGED << bounties, rowLock, claimClock, payouts, deliveries, escrows,
                  now, payReq, claimReq, sweepsStarted, ledgerCalls,
                  hookReq,
                    payoutCall, createReq, relayer, balances, lastComplete, feeCall,
                    attempts, attemptReq, feeRates,
                    poolReq, distributed >>

\* ------------------------------------------------------ webhook deliveries
\* a recordWebhookDelivery that fails closed
OnStoreError_FailsClosed == FALSE

\* recordWebhookDelivery, catch: "On error, allow processing (fail open)"
OnStoreError == TRUE

\* a recordWebhookDelivery that does not look at what the INSERT returned
WebhookFirstTime_IgnoresConflict(existed, failed) == TRUE

\* storage.recordWebhookDelivery: INSERT ... ON CONFLICT DO NOTHING RETURNING;
\* true when a row came back; on a store error: log, return true
WebhookFirstTime(existed, failed) == IF failed THEN OnStoreError ELSE ~existed

\* handleGitHubAppWebhook: a request without a valid signature is answered
\* 401 before the store is touched
HookReject(h) ==
  /\ hookReq[h].pc = "idle"
  /\ \A g \in HookReqs : g < h => hookReq[g].pc # "idle"
  /\ hookReq' = [ hookReq EXCEPT ![h] = [ IdleHook EXCEPT !.pc = "done",
                                                         !.resp = 401 ] ]
  /\ UNCHANGED << bounties, rowLock, claimClock, payouts, deliveries, escrows,
                  now, payReq, claimReq, sweep, sweepsStarted, ledgerCalls,
                  payoutCall, createReq, relayer, balances, lastComplete, feeCall,
                    attempts, attemptReq, feeRates,
                    poolReq, distributed >>

\* handleGitHubAppWebhook, signature verified, up to and including
\* await storage.recordWebhookDelivery(delivery, ...)
HookReceive(h) ==
  \E d \in Deliveries, failed \in BOOLEAN :
    /\ hookReq[h].pc = "idle"
    /\ \A g \in HookReqs : g < h => hookReq[g].pc # "idle"
    /\ deliveries' = IF failed THEN deliveries ELSE deliveries \cup {d}
    /\ hookReq' = [ hookReq EXCEPT ![h] =
          [ pc |-> "recorded", delivery |-> d, existed |-> d \in deliveries,
            failed |-> failed,
            first |-> WebhookFirstTime(d \in deliveries, failed),
            resp |-> 0, worked |-> FALSE ] ]
    /\ UNCHANGED << bounties, rowLock, claimClock, payouts, escrows, now,
                    payReq, claimReq, sweep, sweepsStarted, ledgerCalls,
                    payoutCall, createReq, relayer, balances, lastComplete, feeCall,
                    attempts, attemptReq, feeRates,
                    poolReq, distributed >>

\* a handler that never takes the duplicate branch
ShortCircuit_Never(isFirstDelivery) == FALSE

\* if (!isFirstDelivery) return res.status(200)...
ShortCircuit(isFirstDelivery) == ~isFirstDelivery

\* events the handler starts background work for (issue closed, bounty
\* command, merged PR, ...) and events it answers without work
HookEvents == { "work", "ignored" }

\* handleGitHubAppWebhook after the idempotency check: the duplicate branch,
\* or the dispatch on the event (200 for an event handled inline or ignored,
\* 202 when setImmediate starts the event's handler).  The status column of
\* the webhook_deliveries row (markWebhookDeliveryCompleted/Failed) is not
\* modelled: nothing reads it.
HookHandle(h) ==
  \E event \in HookEvents :
    /\ hookReq[h].pc = "recorded"
    /\ hookReq' = [ hookReq EXCEPT
          ![h].pc = "done",
          ![h].resp = IF ShortCircuit(hookReq[h].first) THEN 200
                      ELSE IF event = "work" THEN 202 ELSE 200,
          ![h].worked = ~ShortCircuit(hookReq[h].first) /\ event = "work" ]
    /\ UNCHANGED << bounties, rowLock, claimClock, payouts, deliveries, escrows,
                    now, payReq, claimReq, sweep, sweepsStarted, ledgerCalls,
                    payoutCall, createReq, relayer, balances, lastComplete, feeCall,
                    attempts, attemptReq, feeRates,
                    poolReq, distributed >>

\* a caller (the relayer, or the pool flow's handleIssueClosed) invokes
\* storage.recordPayout(row); the call returns the row or throws
\* 'Payout already recorded for this issue'
RecordPayoutCall(c) ==
  \E key \in SettlementKeys, u \in Users, amt \in Amounts, id \in 1..MaxPays :
    LET row == PayoutRow([ NoBounty EXCEPT !.issue = key, !.claimedBy = u,
                                          !.base = amt ], PayoutTx(id))
    IN  /\ payoutCall[c].pc = "idle"
        /\ \A q \in PayoutCalls : q < c => payoutCall[q].pc # "idle"
        /\ payouts' = recordPayout(row)
        /\ payoutCall' = [ payoutCall EXCEPT ![c] =
              [ pc |-> "done", row |-> row,
                result |-> IF PayoutExists(key) THEN "already_recorded"
                           ELSE "recorded" ] ]
        /\ UNCHANGED << bounties, rowLock, claimClock, deliveries, escrows, now,
                        payReq, claimReq, sweep, sweepsStarted, ledgerCalls,
                        hookReq, createReq, relayer, balances, lastComplete, feeCall,
                    attempts, attemptReq, feeRates,
                    poolReq, distributed >>

\* ------------------------------------- handleIssueClosed (pool bounties)
\* the transaction hash distributeReward returns to invocation q
PoolTx(q) == 200 + q

\* storage.getPayoutByRepoAndIssue: the row, or null when there is none and
\* when the query throws
ExistingPayout(key, dbOk) == dbOk /\ PayoutExists(key)

\* an issue-closed event reaches handleIssueClosed (each under a delivery id
\* of its own): const existingPayout = await getPayoutByRepoAndIssue(...);
\* if (existingPayout) return
PoolCheck(q) ==
  \E key \in SettlementKeys, dbOk \in BOOLEAN :
    /\ poolReq[q].pc = "idle"
    /\ \A o \in PoolReqs : o < q => poolReq[o].pc # "idle"
    /\ poolReq' = [ poolReq EXCEPT ![q] =
          [ IdlePool EXCEPT !.key = key,
                            !.pc = IF ExistingPayout(key, dbOk) THEN "done"
                                   ELSE "distribute" ] ]
    /\ UNCHANGED << bounties, rowLock, claimClock, payouts, deliveries, escrows,
                    now, payReq, claimReq, sweep, sweepsStarted, ledgerCalls,
                    hookReq, payoutCall, createReq, relayer, balances,
                    lastComplete, feeCall, attempts, attemptReq, feeRates,
                    distributed >>

\* await blockchain.distributeReward(...): returns the transaction, or throws
\* out of the handler
PoolDistribute(q) ==
  \E rpcOk \in BOOLEAN :
    /\ poolReq[q].pc = "distribute"
    /\ distributed' = IF rpcOk
                      THEN [ distributed EXCEPT ![poolReq[q].key] = @ + 1 ]
                      ELSE distributed
    /\ poolReq' = [ poolReq EXCEPT
          ![q].pc = IF rpcOk THEN "record" ELSE "done",
          ![q].tx = IF rpcOk THEN PoolTx(q) ELSE 0 ]
    /\ UNCHANGED << bounties, rowLock, claimClock, payouts, deliveries, escrows,
                    now, payReq, claimReq, sweep, sweepsStarted, ledgerCalls,
                    hookReq, payoutCall, createReq, relayer, balances,
                    lastComplete, feeCall, attempts, attemptReq, feeRates >>

\* try { await storage.recordPayout({...}) } catch { log }: pool payouts carry
\* no fees
PoolRecord(q) ==
  \E dbOk \in BOOLEAN, u \in Users, amt \in Amounts :
    /\ poolReq[q].pc = "record"
    /\ payouts' = IF dbOk
                  THEN recordPayout([ key               |-> poolReq[q].key,
                                      recipient         |-> u,
                                      baseBountyAmount  |-> amt,
                                      contributorFee    |-> 0,
                                      contributorPayout |-> amt,
                                      tx                |-> poolReq[q].tx ])
                  ELSE payouts
    /\ poolReq' = [ poolReq EXCEPT ![q].pc = "done" ]
    /\ UNCHANGED << bounties, rowLock, claimClock, deliveries, escrows,
                    now, payReq, claimReq, sweep, sweepsStarted, ledgerCalls,
                    hookReq, payoutCall, createReq, relayer, balances,
                    lastComplete, feeCall, attempts, attemptReq, feeRates,
                    distributed >>

NextPool ==
  \/ \E q \in PoolReqs : PoolCheck(q)
  \/ \E q \in PoolReqs : PoolDistribute(q)
  \/ \E q \in PoolReqs : PoolRecord(q)

SpecPool == Init /\ [][NextPool]_vars

\* ------------------------------------------------------------ specification
\* the bounty life cycle with block.timestamp frozen: expiry plays no part,
\* and a revert of the escrow for any reason is a ledger call that throws
CreateBounty == CreateBountyWith({0})

Next ==
  \/ CreateBounty
  \/ \E r \in PayReqs : PayStart(r)
  \/ \E r \in PayReqs : PayLedger(r)
  \/ \E r \in PayReqs : PayUpdate(r)
  \/ \E r \in ClaimReqs : ClaimStart(r)
  \/ \E r \in ClaimReqs : ClaimLock(r)
  \/ \E r \in ClaimReqs : ClaimCommit(r)
  \/ StartRelayer
  \/ IntervalFire
  \/ \E s \in Sweeps : SweepFetch(s)
  \/ \E s \in Sweeps : SweepRead(s)
  \/ \E s \in Sweeps : SweepVerify(s)
  \/ \E s \in Sweeps : SweepMarkFailed(s)
  \/ \E s \in Sweeps : SweepLedger(s)
  \/ \E s \in Sweeps : SweepRecordPayout(s)
  \/ \E s \in Sweeps : SweepComplete(s)
  \/ \E s \in Sweeps : SweepDelay(s)

Spec == Init /\ [][Next]_vars

\* the store operations that guard against double processing, called directly:
\* webhook deliveries and payout rows share no row with the bounty routes
NextStore ==
  \/ \E h \in HookReqs : HookReceive(h)
  \/ \E c \in PayoutCalls : RecordPayoutCall(c)

SpecStore == Init /\ [][NextStore]_vars

\* POST /webhook/github/app
NextHook ==
  \/ \E h \in HookReqs : HookReject(h)
  \/ \E h \in HookReqs : HookReceive(h)
  \/ \E h \in HookReqs : HookHandle(h)

SpecHook == Init /\ [][NextHook]_vars

\* the routes alone, before any relayer is started: the writers of a bounty's
\* funding fields (pay) and the requests that race with them (pay, claim)
NextFund ==
  \/ CreateBounty
  \/ \E r \in PayReqs : PayStart(r)
  \/ \E r \in PayReqs : PayLedger(r)
  \/ \E r \in PayReqs : PayUpdate(r)
  \/ \E r \in ClaimReqs : ClaimStart(r)
  \/ \E r \in ClaimReqs : ClaimLock(r)
  \/ \E r \in ClaimReqs : ClaimCommit(r)

SpecFund == Init /\ [][NextFund]_vars

\* the create route on a table with room for one row per request, and the
\* pay route, which moves rows on to funded
InitCreate ==
  /\ bounties      = [ b \in 1..MaxCreates |-> NoBounty ]
  /\ rowLock       = [ b \in 1..MaxCreates |-> 0 ]
  /\ claimClock    = 0
  /\ payouts       = {}
  /\ deliveries    = {}
  /\ escrows       = << >>
  /\ now           = 0
  /\ payReq        = [ r \in PayReqs |-> IdlePay ]
  /\ claimReq      = [ r \in ClaimReqs |-> IdleClaim ]
  /\ sweep         = [ s \in Sweeps |-> IdleSweep ]
  /\ sweepsStarted = 0
  /\ ledgerCalls   = [ i \in Issues |-> 0 ]
  /\ hookReq       = [ h \in HookReqs |-> IdleHook ]
  /\ payoutCall    = [ c \in PayoutCalls |-> IdlePayoutCall ]
  /\ createReq     = [ r \in CreateReqs |-> IdleCreate ]
  /\ InitChain
  /\ InitCalls

NextCreate ==
  \/ \E r \in CreateReqs : CreateRequest(r)
  \/ \E r \in PayReqs : PayStart(r)
  \/ \E r \in PayReqs : PayLedger(r)
  \/ \E r \in PayReqs : PayUpdate(r)

SpecCreate == InitCreate /\ [][NextCreate]_vars

\* bounties with an expiry, the routes that fund and claim them, the clock and
\* the creator's refundBounty on the contract
CreateExpiringBounty == CreateBountyWith(Expiries)

NextEscrow ==
  \/ CreateExpiringBounty
  \/ \E r \in PayReqs : PayStart(r)
  \/ \E r \in PayReqs : PayLedger(r)
  \/ \E r \in PayReqs : PayUpdate(r)
  \/ \E r \in ClaimReqs : ClaimStart(r)
  \/ \E r \in ClaimReqs : ClaimLock(r)
  \/ \E r \in ClaimReqs : ClaimCommit(r)
  \/ Tick
  \/ RefundBounty

SpecEscrow == Init /\ [][NextEscrow]_vars

\* the contract alone: accounts send it createBounty, completeBounty,
\* refundBounty and setRelayer transactions while block.timestamp advances
NextContract ==
  \/ CreateBountyCall
  \/ CompleteBountyCall
  \/ RefundBounty
  \/ SetRelayerCall
  \/ Tick

SpecContract == Init /\ [][NextContract]_vars

\* the contract's money: deposits, completions at the fee rates the owner
\* sets, refunds
NextPayout ==
  \/ CreateBountyCall
  \/ RelayerCompletes
  \/ RefundBounty
  \/ SetFeeRatesCall
  \/ Tick

SpecPayout == Init /\ [][NextPayout]_vars

\* the relayer alone, started on a store that holds a claimed bounty whose
\* deposit is in escrow (the state the pay and claim routes leave behind)
InitClaimedExpiring(expiries) ==
  \E cr \in Creators, iss \in Issues, u \in Users, amt \in Amounts, ins \in BOOLEAN,
     exp \in expiries :
    LET fees == calculateBountyFees(amt)
        row  == [ NoBounty EXCEPT !.status = "claimed", !.issue = iss,
                                  !.creator = cr, !.base = fees.baseBountyAmount,
                                  !.totalPaid = fees.totalPaidByClient,
                                  !.inst = ins, !.chainId = 1,
                                  !.escrowTx = DepositTx(1), !.claimedBy = u,
                                  !.claimedPr = PrOf(1), !.claimedAt = 1 ]
    IN  /\ bounties      = [ b \in 1..MaxBounties |-> IF b = 1 THEN row ELSE NoBounty ]
        /\ rowLock       = [ b \in 1..MaxBounties |-> 0 ]
        /\ claimClock    = 1
        /\ payouts       = {}
        /\ deliveries    = {}
        /\ escrows       = << [ creator |-> cr, amount |-> fees.totalPaidByClient,
                                expiresAt |-> exp, status |-> "ACTIVE" ] >>
        /\ now           = 0
        /\ payReq        = [ r \in PayReqs |-> IdlePay ]
        /\ claimReq      = [ r \in ClaimReqs |-> IdleClaim ]
        /\ sweep         = [ s \in Sweeps |-> IdleSweep ]
        /\ sweepsStarted = 0
        /\ ledgerCalls   = [ i \in Issues |-> 0 ]
        /\ hookReq       = [ h \in HookReqs |-> IdleHook ]
        /\ payoutCall    = [ c \in PayoutCalls |-> IdlePayoutCall ]
        /\ createReq     = [ r \in CreateReqs |-> IdleCreate ]
        /\ relayer       = RelayerWallet
        /\ feeRates      = [ platform |-> platformFeeRate,
                             contributor |-> contributorFeeRate ]
        /\ balances      = Transfer([ a \in Accounts |->
                                       IF a \in Users THEN InitialFunds ELSE 0 ],
                                    cr, EscrowAddress, fees.totalPaidByClient)
        /\ lastComplete  = NoComplete
        /\ InitCalls

\* a claimed bounty whose deposit has no expiry
InitClaimed == InitClaimedExpiring({0})

NextRelayer ==
  \/ StartRelayer
  \/ IntervalFire
  \/ \E s \in Sweeps : SweepFetch(s)
  \/ \E s \in Sweeps : SweepRead(s)
  \/ \E s \in Sweeps : SweepVerify(s)
  \/ \E s \in Sweeps : SweepMarkFailed(s)
  \/ \E s \in Sweeps : SweepLedger(s)
  \/ \E s \in Sweeps : SweepRecordPayout(s)
  \/ \E s \in Sweeps : SweepComplete(s)
  \/ \E s \in Sweeps : SweepDelay(s)

SpecRelayer == InitClaimed /\ [][NextRelayer]_vars

\* the setInterval callback, for ever: the timer fires again once the run
\* before it is over (intervalMs is 30 s, a run takes seconds), and the new
\* run starts from scratch
IntervalRefire ==
  /\ sweepsStarted >= 1
  /\ SweepsRunning = {}
  /\ \E s \in Sweeps :
       /\ sweep[s].pc = "done"
       /\ sweep' = [ sweep EXCEPT ![s] = [ IdleSweep EXCEPT !.pc = "fetch" ] ]
  /\ UNCHANGED << bounties, rowLock, claimClock, payouts, deliveries, escrows,
                  now, payReq, claimReq, sweepsStarted, ledgerCalls, hookReq,
                  payoutCall, createReq, relayer, balances, lastComplete, feeCall,
                  attempts, attemptReq, feeRates, poolReq, distributed >>

\* one step of run s of processClaimedBounties
SweepStep(s) ==
  \/ SweepFetch(s)
  \/ SweepRead(s)
  \/ SweepVerify(s)
  \/ SweepMarkFailed(s)
  \/ SweepLedger(s)
  \/ SweepRecordPayout(s)
  \/ SweepComplete(s)
  \/ SweepDelay(s)

\* the steps of run s in which the external call answered: the store returned
\* the claimed bounties, GitHub returned a verification result, the
\* completeBounty transaction was mined, the store wrote the completion
FetchReturns(s)    == SweepFetch(s) /\ sweep'[s].pc = "read"
VerifyReturns(s)   == SweepVerify(s) /\ sweep'[s].verdict \in {"merged", "not_merged"}
LedgerReturns(s)   == SweepLedger(s) /\ escrows' # escrows
CompleteReturns(s) == SweepComplete(s) /\ bounties' # bounties

\* the relayer with its timer running for ever and its runs one after the
\* other, on a claimed bounty whose deposit may carry an expiry, while block
\* time passes
NextLive ==
  \/ StartRelayer
  \/ IntervalRefire
  \/ \E s \in Sweeps : SweepStep(s)
  \/ Tick

\* sweeps keep being scheduled, every run goes on, and an external call that
\* is made again and again eventually answers
FairLive ==
  /\ WF_vars(StartRelayer)
  /\ WF_vars(IntervalRefire)
  /\ \A s \in Sweeps : /\ WF_vars(SweepStep(s))
                       /\ SF_vars(FetchReturns(s))
                       /\ SF_vars(VerifyReturns(s))
                       /\ SF_vars(LedgerReturns(s))
                       /\ SF_vars(CompleteReturns(s))

SpecLive == InitClaimedExpiring(Expiries) /\ [][NextLive]_vars /\ FairLive

\* completeBounty sent by an account that does not hold the relayer's key
OthersComplete == CompleteBountyCallBy(Senders \ { RelayerWallet })

\* everything the program and its users can do to a bounty that has been
\* claimed and to its deposit: the relayer's runs, the creator's
\* refundBounty, completeBounty from accounts without the relayer's key, and
\* the passing of block time (the pay and claim routes answer 400 for a
\* bounty that is not pending_payment or funded and change nothing)
NextSettle ==
  \/ StartRelayer
  \/ IntervalFire
  \/ IntervalRefire
  \/ \E s \in Sweeps : SweepStep(s)
  \/ RefundBounty
  \/ OthersComplete
  \/ Tick

SpecSettle == InitClaimedExpiring(Expiries) /\ [][NextSettle]_vars

\* the issue bounty b of the waiting list is on: one issue per bounty
IssueOf(b) == 4 + b

\* the relayer started on a store that holds QueueLen claimed bounties, claimed
\* in any order, each on an issue of its own in a repository that has the app
\* installed, each with its deposit in escrow
InitQueue ==
  \E cr \in Creators, u \in Users, amt \in Amounts,
     at \in [ 1..QueueLen -> 1..QueueLen ] :
    LET fees   == calculateBountyFees(amt)
        row(b) == [ NoBounty EXCEPT !.status = "claimed", !.issue = IssueOf(b),
                                    !.creator = cr, !.base = fees.baseBountyAmount,
                                    !.totalPaid = fees.totalPaidByClient,
                                    !.inst = TRUE, !.chainId = b,
                                    !.escrowTx = DepositTx(b), !.claimedBy = u,
                                    !.claimedPr = PrOf(b), !.claimedAt = at[b] ]
    IN  /\ \A x, y \in 1..QueueLen : at[x] = at[y] => x = y
        /\ bounties      = [ b \in 1..QueueLen |-> row(b) ]
        /\ rowLock       = [ b \in 1..QueueLen |-> 0 ]
        /\ claimClock    = QueueLen
        /\ payouts       = {}
        /\ deliveries    = {}
        /\ escrows       = [ b \in 1..QueueLen |->
                               [ creator |-> cr, amount |-> fees.totalPaidByClient,
                                 expiresAt |-> 0, status |-> "ACTIVE" ] ]
        /\ now           = 0
        /\ payReq        = [ r \in PayReqs |-> IdlePay ]
        /\ claimReq      = [ r \in ClaimReqs |-> IdleClaim ]
        /\ sweep         = [ s \in Sweeps |-> IdleSweep ]
        /\ sweepsStarted = 0
        /\ ledgerCalls   = [ i \in { IssueOf(b) : b \in 1..QueueLen } |-> 0 ]
        /\ hookReq       = [ h \in HookReqs |-> IdleHook ]
        /\ payoutCall    = [ c \in PayoutCalls |-> IdlePayoutCall ]
        /\ createReq     = [ r \in CreateReqs |-> IdleCreate ]
        /\ relayer       = RelayerWallet
        /\ feeRates      = [ platform |-> platformFeeRate,
                             contributor |-> contributorFeeRate ]
        /\ balances      = [ a \in Accounts |->
                               IF a \in Users THEN InitialFunds
                               ELSE IF a = EscrowAddress
                                    THEN QueueLen * fees.totalPaidByClient
                               ELSE 0 ]
        /\ lastComplete  = NoComplete
        /\ InitCalls

\* one run of processClaimedBounties over the waiting list
NextQueue ==
  \/ StartRelayer
  \/ \E s \in Sweeps : SweepFetch(s)
  \/ \E s \in Sweeps : SweepRead(s)
  \/ \E s \in Sweeps : SweepVerify(s)
  \/ \E s \in Sweeps : SweepMarkFailed(s)
  \/ \E s \in Sweeps : SweepLedger(s)
  \/ \E s \in Sweeps : SweepRecordPayout(s)
  \/ \E s \in Sweeps : SweepComplete(s)
  \/ \E s \in Sweeps : SweepDelay(s)

SpecQueue == InitQueue /\ [][NextQueue]_vars


\* ------------------------------------------------------------------ claims
Terminal == { "completed", "refunded", "expired", "failed_verification" }

ClaimWinners(b) ==
  { r \in ClaimReqs : /\ claimReq[r].pc = "done"
                      /\ claimReq[r].bounty = b
                      /\ claimReq[r].resp = 200 }

\* C1: of all claim calls made on a funded bounty exactly one succeeds, the
\* bounty carries that caller's claim, and every other call is refused
C1_ExactlyOneClaimWins ==
  \A b \in BountyIds : Cardinality(ClaimWinners(b)) <= 1

\* C2: the ledger payout operation is invoked at most once per settlement key
C2_LedgerOncePerKey ==
  \A i \in Issues : ledgerCalls[i] <= 1

\* C4: a bounty whose status is completed, refunded, expired or
\* failed_verification never changes status again
C4_TerminalIsFinal ==
  [][ \A b \in BountyIds :
        bounties[b].status \in Terminal =>
          bounties'[b].status = bounties[b].status ]_vars

\* C5: no two relayer sweeps are ever in progress at the same time
C5_SingleFlight ==
  Cardinality(SweepsRunning) <= 1

\* C6: a sweep whose verification failed for a transient reason leaves the
\* bounty claimed; it never writes failed_verification
C6_TransientStaysClaimed ==
  [][ \A s \in Sweeps :
        (sweep[s].pc = "fail" /\ sweep[s].transient /\ sweep'[s].pc # "fail")
          => bounties' = bounties ]_vars

\* C8: the ledger payout call is made only after the payouts table has been
\* consulted, and never for a settlement key that already has a payout row
C8_NoLedgerCallAfterPayout ==
  [][ \A i \in Issues :
        ledgerCalls'[i] # ledgerCalls[i] => ~PayoutExists(i) ]_vars

\* C10: a completed bounty has a payout row under its settlement key, whose
\* contributor payout is base minus contributor fee and whose transaction
\* hash is that of the ledger completion
C10_CompletedHasPayout ==
  \A b \in BountyIds :
    bounties[b].status = "completed" =>
      \E p \in payouts :
        /\ p.key = PayoutKey(bounties[b])
        /\ p.contributorPayout = bounties[b].base
              - calculateBountyFees(bounties[b].base).contributorFeeAmount
        /\ p.tx = bounties[b].payoutTx

\* request h has called recordWebhookDelivery and the call has returned
Called(h) == hookReq[h].pc = "recorded" \/ (hookReq[h].pc = "done" /\ hookReq[h].resp # 401)

\* calls of recordWebhookDelivery made before call h with the same delivery id
EarlierCalls(h) ==
  { g \in HookReqs : /\ g < h
                     /\ Called(g)
                     /\ hookReq[g].delivery = hookReq[h].delivery }

C9_OnePayoutPerKey ==
  /\ [] ( \A p, q \in payouts : p.key = q.key => p = q )
  /\ [] ( \A c \in PayoutCalls :
            payoutCall[c].pc = "done" =>
              ( payoutCall[c].result = "already_recorded" <=>
                  \E e \in PayoutCalls : /\ e < c
                                         /\ payoutCall[e].row.key =
                                              payoutCall[c].row.key ) )
  /\ [][ \A p \in payouts : p \in payouts' ]_vars

C9_Witness ==
  \E c \in PayoutCalls :
    /\ payoutCall[c].pc = "done"
    /\ payoutCall[c].result = "already_recorded"
    /\ payoutCall[c].row \notin payouts
    /\ \E p \in payouts : p.key = payoutCall[c].row.key

\* C11: a sweep whose ledger completion call throws or reverts goes out
\* through the catch: that step and the rest of its handling of the bounty
\* write neither the bounty (it stays claimed) nor a payout; a payout row and
\* a completed status always carry the hash of a completion that was mined
C11_FailedCompletionStaysClaimed ==
  /\ [][ \A s \in Sweeps :
           (sweep[s].pc = "ledger" /\ sweep'[s].pc # "ledger" /\ escrows' = escrows)
             => /\ sweep'[s].pc = "delay"
                /\ bounties' = bounties
                /\ payouts' = payouts ]_vars
  /\ [][ \A s \in Sweeps :
           (sweep[s].pc = "delay" /\ sweep'[s] # sweep[s])
             => (bounties' = bounties /\ payouts' = payouts) ]_vars
  /\ [] ( \A p \in payouts :
            \E id \in 1..Len(escrows) : /\ escrows[id].status = "COMPLETED"
                                        /\ p.tx = PayoutTx(id) )
  /\ [] ( \A b \in BountyIds :
            bounties[b].status = "completed" =>
              \E id \in 1..Len(escrows) : /\ escrows[id].status = "COMPLETED"
                                          /\ bounties[b].payoutTx = PayoutTx(id) )

\* a second sweep's completion call has reverted on an escrow that is no
\* longer ACTIVE, or the RPC failed, and the bounty is still claimed
C11_Witness ==
  \E s \in Sweeps :
    /\ sweep[s].pc = "delay"
    /\ sweep[s].verdict = "merged"
    /\ sweep[s].tx = 0
    /\ ledgerCalls[PayoutKey(sweep[s].snap)] >= 1
    /\ bounties[Head(sweep[s].queue)].status = "claimed"
    /\ payouts = {}

LegalEdges ==
  { << "none", "pending_payment" >>, << "pending_payment", "funded" >>,
    << "funded", "claimed" >>, << "funded", "refunded" >>,
    << "claimed", "completed" >>, << "claimed", "failed_verification" >> }

\* C14: a new bounty starts in pending_payment and every later change of its
\* status follows one of the edges pending_payment -> funded, funded ->
\* claimed, funded -> refunded, claimed -> completed, claimed ->
\* failed_verification
C14_OnlyLegalEdges ==
  [][ \A b \in BountyIds :
        bounties'[b].status # bounties[b].status =>
          << bounties[b].status, bounties'[b].status >> \in LegalEdges ]_vars

DepositsOf(u) == { id \in 1..Len(escrows) : escrows[id].creator = u }

\* C18: a pay request for a bounty made by a user who is not its creator is
\* answered 403 at once: it makes no ledger call and writes nothing; every
\* escrow has been deposited by the creator of a bounty
C18_OnlyCreatorPays ==
  /\ [][ \A r \in PayReqs :
           LET b == payReq'[r].bounty IN
           ( /\ payReq[r].pc = "idle" /\ payReq'[r].pc # "idle"
             /\ bounties[b].status # "none"
             /\ payReq'[r].user # 0
             /\ payReq'[r].user # bounties[b].creator )
             => /\ payReq'[r].pc = "done"
                /\ payReq'[r].resp = 403
                /\ bounties' = bounties
                /\ escrows' = escrows ]_vars
  /\ [] ( \A r \in PayReqs : payReq[r].resp = 403 => payReq[r].pc = "done" )
  /\ [] ( \A u \in Users :
            DepositsOf(u) # {} => \E b \in BountyIds : bounties[b].creator = u )

C18_Witness ==
  \E r \in PayReqs :
    /\ payReq[r].pc = "done"
    /\ payReq[r].resp = 403
    /\ payReq[r].user # bounties[payReq[r].bounty].creator
    /\ bounties[payReq[r].bounty].status = "pending_payment"
    /\ escrows = << >>

\* C19: a claim request on a bounty that is not funded, whether the route
\* sees that on the row it fetched or the atomic claim sees it under the row
\* lock (the loser of a race), is answered 400 with the not-claimable message
\* and writes nothing; no claim request is answered 500
C19_NotFundedIsNotClaimable ==
  /\ [][ \A r \in ClaimReqs :
           LET b == claimReq'[r].bounty IN
           ( /\ claimReq[r].pc = "idle" /\ claimReq'[r].pc # "idle"
             /\ bounties[b].status \notin { "none", "funded" } )
             => /\ claimReq'[r].pc = "done"
                /\ claimReq'[r].resp = 400
                /\ claimReq'[r].err = "not_claimable"
                /\ bounties' = bounties ]_vars
  /\ [][ \A r \in ClaimReqs :
           ( /\ claimReq[r].pc = "txn" /\ claimReq'[r].pc = "done"
             /\ bounties[claimReq[r].bounty].status # "funded" )
             => /\ claimReq'[r].resp = 400
                /\ claimReq'[r].err = "not_claimable"
                /\ bounties' = bounties ]_vars
  /\ [] ( \A r \in ClaimReqs : claimReq[r].resp # 500 )

\* two claims passed the route's status check; the second found the row
\* claimed under the lock
C19_Witness ==
  \E r, w \in ClaimReqs :
    /\ r # w
    /\ claimReq[w].pc = "done" /\ claimReq[w].resp = 200
    /\ claimReq[r].pc = "done" /\ claimReq[r].resp = 400
    /\ claimReq[r].err = "not_claimable"
    /\ claimReq[r].bounty = claimReq[w].bounty
    /\ bounties[claimReq[r].bounty].claimedPr = claimReq[w].pr

\* C15: no issue ever has two bounties whose status is neither refunded nor
\* expired, however the create requests interleave
C15_OneActiveBountyPerIssue ==
  \A i \in CreateIssues :
    Cardinality({ b \in BountyIds :
                    /\ bounties[b].issue = i
                    /\ bounties[b].status \notin { "none", "refunded", "expired" } }) <= 1

\* a second create request for an issue found the first one's bounty funded
C15_Witness ==
  \E r \in CreateReqs, b \in BountyIds :
    /\ createReq[r].pc = "done"
    /\ createReq[r].duplicate
    /\ bounties[b].issue = createReq[r].issue
    /\ bounties[b].status = "funded"
    /\ \E c \in BountyIds : c # b /\ bounties[c].status = "pending_payment"

\* C16: a create request for an issue that has an active bounty inserts
\* nothing and is answered with a client error (400 or 409) that carries the
\* existing bounty
C16_DuplicateCreateIsClientError ==
  /\ [][ \A r \in CreateReqs :
           (createReq'[r].pc = "done" /\ createReq'[r].duplicate
              /\ createReq[r].pc = "idle") => bounties' = bounties ]_vars
  /\ [] ( \A r \in CreateReqs :
            (createReq[r].pc = "done" /\ createReq[r].duplicate)
              => /\ createReq[r].resp \in { 400, 409 }
                 /\ createReq[r].existing # 0 )

\* C20: an escrow is refunded only strictly after its expiry time and only
\* while the bounty it belongs to is funded: not claimed, completed or
\* refunded (the contract itself lets nobody but the creator refund)
C20_RefundOnlyWhileFunded ==
  [][ \A id \in 1..Len(escrows) :
        (escrows[id].status = "ACTIVE" /\ escrows'[id].status = "REFUNDED")
          => /\ escrows[id].expiresAt > 0
             /\ now > escrows[id].expiresAt
             /\ \A b \in BountyIds :
                  bounties[b].chainId = id => bounties[b].status = "funded" ]_vars

C22_OnlyRelayerCompletes ==
  /\ [][ \A id \in 1..Len(escrows) :
           (escrows[id].status = "ACTIVE" /\ escrows'[id].status = "COMPLETED") =>
             /\ lastComplete'.ok
             /\ lastComplete'.id = id
             /\ lastComplete'.sender = relayer ]_vars
  /\ [][ (lastComplete' # lastComplete /\ lastComplete'.sender # relayer) =>
           /\ ~lastComplete'.ok
           /\ escrows' = escrows
           /\ balances' = balances ]_vars

\* the owner has rotated the relayer; the old relayer's completeBounty on an
\* escrow that is ACTIVE, for a valid contributor, has reverted
C22_Witness ==
  /\ relayer = SpareWallet
  /\ lastComplete.sender = RelayerWallet
  /\ ~lastComplete.ok
  /\ lastComplete.contributor # 0
  /\ lastComplete.id \in 1..Len(escrows)
  /\ escrows[lastComplete.id].status = "ACTIVE"
  /\ escrows[lastComplete.id].expiresAt = 0

\* ----------------------------- creation again after a refund or an expiry
NextRecreate ==
  \/ \E r \in CreateReqs : CreateExpiringRequest(r)
  \/ \E r \in PayReqs : PayStart(r)
  \/ \E r \in PayReqs : PayLedger(r)
  \/ \E r \in PayReqs : PayUpdate(r)
  \/ Tick
  \/ RefundBounty
  \/ RecordRefund
  \/ MarkExpired

SpecRecreate == InitCreate /\ [][NextRecreate]_vars

\* --------------------------------------------- fee calculation on its own
\* callers about to ask for the breakdown of a base amount on the
\* DECIMAL(18,8) grid
InitFees ==
  /\ bounties      = [ b \in 1..MaxBounties |-> NoBounty ]
  /\ rowLock       = [ b \in 1..MaxBounties |-> 0 ]
  /\ claimClock    = 0
  /\ payouts       = {}
  /\ deliveries    = {}
  /\ escrows       = << >>
  /\ now           = 0
  /\ payReq        = [ r \in PayReqs |-> IdlePay ]
  /\ claimReq      = [ r \in ClaimReqs |-> IdleClaim ]
  /\ sweep         = [ s \in Sweeps |-> IdleSweep ]
  /\ sweepsStarted = 0
  /\ ledgerCalls   = [ i \in Issues |-> 0 ]
  /\ hookReq       = [ h \in HookReqs |-> IdleHook ]
  /\ payoutCall    = [ c \in PayoutCalls |-> IdlePayoutCall ]
  /\ createReq     = [ r \in CreateReqs |-> IdleCreate ]
  /\ InitChain
  /\ feeCall \in { [ NoFeeCall EXCEPT !.base = b ] : b \in 1..MaxBase }
  /\ attempts   = << >>
  /\ attemptReq = << >>
  /\ InitPool

NextFees == CalculateFees

SpecFees == InitFees /\ [][NextFees]_vars

\* ------------------------------------------- the attempts table on its own
NextAttempts ==
  \/ InsertAttempt
  \/ UpdateAttemptStatus

SpecAttempts == Init /\ [][NextAttempts]_vars

\* is q the claimed bounties, each once, oldest claim first?
FifoOfClaimed(q) ==
  /\ { q[k] : k \in 1..Len(q) } = { b \in BountyIds : bounties[b].status = "claimed" }
  /\ \A j, k \in 1..Len(q) :
       j < k => bounties[q[j]].claimedAt < bounties[q[k]].claimedAt

\* C23: a run takes the claimed bounties in ascending claim time and handles
\* them one at a time: every store write and every ledger call of the run is
\* for the bounty at the head of its list, and the run moves to the next
\* bounty only from the delay that follows the handling of the one before
C23_SequentialFifo ==
  /\ [][ \A s \in Sweeps :
           (sweep[s].pc = "fetch" /\ sweep'[s].pc = "read")
             => FifoOfClaimed(sweep'[s].queue) ]_vars
  /\ [][ \A s \in Sweeps :
           (sweep'[s].pc = "read" /\ sweep[s].pc # "read")
             => \/ sweep[s].pc = "fetch"
                \/ /\ sweep[s].pc = "delay"
                   /\ sweep'[s].queue = Tail(sweep[s].queue) ]_vars
  /\ [][ \A s \in Sweeps :
           (sweep[s].pc \notin { "idle", "fetch" }
              /\ sweep'[s].queue # sweep[s].queue)
             => /\ sweep[s].pc = "delay"
                /\ sweep'[s].queue = Tail(sweep[s].queue) ]_vars
  /\ [][ \A b \in BountyIds :
           bounties'[b] # bounties[b]
             => \E s \in Sweeps : /\ sweep[s].pc \in { "fail", "complete" }
                                  /\ sweep'[s].pc = "delay"
                                  /\ Head(sweep[s].queue) = b ]_vars
  /\ [][ \A b \in BountyIds :
           ledgerCalls'[bounties[b].issue] # ledgerCalls[bounties[b].issue]
             => \E s \in Sweeps : /\ sweep[s].pc = "ledger"
                                  /\ sweep'[s].pc # "ledger"
                                  /\ Head(sweep[s].queue) = b ]_vars

\* the run has completed the bounty claimed first, which is not the one with
\* the smallest id, and is now verifying the next
C23_Witness ==
  \E s \in Sweeps, b \in BountyIds :
    /\ sweep[s].fetched >= 2
    /\ Len(sweep[s].queue) = sweep[s].fetched - 1
    /\ sweep[s].pc = "verify"
    /\ b > Head(sweep[s].queue)
    /\ bounties[b].claimedAt < bounties[Head(sweep[s].queue)].claimedAt
    /\ bounties[b].status = "completed"

SweepPcs == { "idle", "fetch", "read", "verify", "fail", "ledger", "payout",
             "complete", "delay", "done" }

\* C24: a run never throws, and an error in the handling of one bounty (the
\* verifier throws, the ledger call throws, the completion write fails) takes
\* the run to the delay and on to the next bounty of its list: a run ends
\* only after the last bounty it fetched
C24_ErrorsDoNotAbortSweep ==
  /\ [] ( \A s \in Sweeps : sweep[s].pc \in SweepPcs )
  /\ [][ \A s \in Sweeps :
           ( \/ sweep[s].pc = "verify" /\ sweep'[s].verdict = "throws"
             \/ sweep[s].pc = "ledger" /\ sweep'[s].pc # "ledger"
                                       /\ escrows' = escrows
             \/ sweep[s].pc = "complete" /\ sweep'[s].pc # "complete"
                                         /\ bounties' = bounties )
             => /\ sweep'[s].pc = "delay"
                /\ sweep'[s].queue = sweep[s].queue ]_vars
  /\ [][ \A s \in Sweeps :
           (sweep[s].pc = "delay" /\ sweep'[s] # sweep[s])
             => /\ sweep'[s].queue = Tail(sweep[s].queue)
                /\ sweep'[s].pc = IF Len(sweep[s].queue) > 1 THEN "read"
                                  ELSE "done" ]_vars
  /\ [][ \A s \in Sweeps :
           (sweep'[s].pc = "done" /\ sweep[s].pc # "done")
             => \/ sweep[s].pc = "fetch"
                \/ sweep[s].pc = "delay" /\ Len(sweep[s].queue) = 1 ]_vars

\* a run is over; the handling of an earlier bounty of its list ended in the
\* catch (still claimed, deposit still in escrow) and a later one is completed
C24_Witness ==
  \E s \in Sweeps, b, c \in BountyIds :
    /\ sweep[s].pc = "done"
    /\ sweep[s].fetched >= 2
    /\ bounties[b].claimedAt < bounties[c].claimedAt
    /\ bounties[b].status = "claimed"
    /\ escrows[bounties[b].chainId].status = "ACTIVE"
    /\ bounties[c].status = "completed"

\* C25: a run reads the row of a bounty again before it does anything for
\* it, and when the row it reads is not claimed it goes straight to the delay:
\* no verification, no ledger call, no write of a bounty or a payout
C25_RereadBeforeActing ==
  /\ [][ \A s \in Sweeps :
           (sweep[s].pc = "read" /\ sweep'[s].pc # "read") =>
             LET row == bounties[Head(sweep[s].queue)] IN
             /\ sweep'[s].snap = row
             /\ row.status # "claimed" =>
                  /\ sweep'[s].pc = "delay"
                  /\ bounties' = bounties /\ payouts' = payouts
                  /\ escrows' = escrows /\ ledgerCalls' = ledgerCalls ]_vars
  /\ [][ \A s \in Sweeps :
           (sweep'[s].pc = "verify" /\ sweep[s].pc # "verify")
             => sweep[s].pc = "read" ]_vars
  /\ [] ( \A s \in Sweeps :
            sweep[s].pc \in { "verify", "fail", "ledger", "payout", "complete" }
              => sweep[s].snap.status = "claimed" )
  /\ [][ \A s \in Sweeps :
           (sweep[s].pc = "delay" /\ sweep[s].snap.status # "claimed"
              /\ sweep'[s] # sweep[s])
             => /\ bounties' = bounties /\ payouts' = payouts
                /\ escrows' = escrows /\ ledgerCalls' = ledgerCalls ]_vars

\* a run fetched the bounty while it was claimed and read it again after
\* another run had settled it
C25_Witness ==
  \E s \in Sweeps :
    /\ sweep[s].pc = "delay"
    /\ sweep[s].fetched >= 1
    /\ sweep[s].snap.status \in { "completed", "failed_verification" }
    /\ sweep[s].verdict = ""
    /\ sweep[s].tx = 0

\* C30: when a run's completion call reaches the contract for a bounty whose
\* escrow an earlier run has already paid out, nothing is paid a second time
\* and the run goes on to record the completion in the store
C30_RetryReachesCompleted ==
  [][ \A s \in Sweeps :
        ( /\ sweep[s].pc = "ledger" /\ sweep'[s].pc # "ledger"
          /\ EscrowAt(sweep[s].snap.chainId).status = "COMPLETED"
          /\ lastComplete' # lastComplete )
          => /\ escrows' = escrows
             /\ balances' = balances
             /\ sweep'[s].pc = "payout" ]_vars

\* C26: with amounts counted in units of the eighth decimal place, the fee
\* breakdown of every base > 0 has a client fee that is base * 0.025 rounded
\* to the nearest unit (half a unit rounds up), an equal contributor fee, a
\* total fee that is their sum, a total paid of base plus client fee and a
\* payout of base minus contributor fee
C26_FeeBreakdown ==
  feeCall.pc = "done" =>
    LET f == feeCall.fees
        base == feeCall.base
    IN  /\ base > 0
        /\ 40 * f.clientFeeAmount - 20 <= base
        /\ base < 40 * f.clientFeeAmount + 20
        /\ f.contributorFeeAmount = f.clientFeeAmount
        /\ f.totalPlatformFee = f.clientFeeAmount + f.contributorFeeAmount
        /\ f.totalPaidByClient = base + f.clientFeeAmount
        /\ f.contributorPayout = base - f.contributorFeeAmount
        /\ f.baseBountyAmount = base

\* the breakdown of base 100, whose fee of 2.5 units rounds up to 3
C26_Witness ==
  /\ feeCall.pc = "done"
  /\ feeCall.base = 100
  /\ feeCall.fees = [ baseBountyAmount     |-> 100,
                      clientFeeAmount      |-> 3,
                      contributorFeeAmount |-> 3,
                      totalPlatformFee     |-> 6,
                      totalPaidByClient    |-> 103,
                      contributorPayout    |-> 97 ]

\* C27 as stated: total paid minus total fee gives back the base
C27_RoundTrip ==
  feeCall.pc = "done" =>
    feeCall.fees.totalPaidByClient - feeCall.fees.totalPlatformFee = feeCall.base

\* C27: the breakdown round-trips on the client fee: total paid minus client
\* fee gives back the base, and total paid minus total fee is the payout
C27_RoundTripClientFee ==
  feeCall.pc = "done" =>
    /\ feeCall.fees.totalPaidByClient - feeCall.fees.clientFeeAmount
         = feeCall.base
    /\ feeCall.fees.totalPaidByClient - feeCall.fees.totalPlatformFee
         = feeCall.fees.contributorPayout
    /\ feeCall.fees.baseBountyAmount = feeCall.base

\* a breakdown with a fee: base 40, fee 1, paid 41, of which 39 are paid out
C27_Witness ==
  /\ feeCall.pc = "done"
  /\ feeCall.base = 40
  /\ feeCall.fees.clientFeeAmount = 1
  /\ feeCall.fees.totalPaidByClient = 41
  /\ feeCall.fees.totalPlatformFee = 2
  /\ feeCall.fees.contributorPayout = 39

\* rows of user u on issue i in one of the statuses sts
AttemptsOf(u, i, sts) ==
  { id \in 1..Len(attempts) : /\ attempts[id].user = u
                              /\ attempts[id].issue = i
                              /\ attempts[id].status \in sts }

\* C29: a user has at most one active attempt on an issue, whatever the
\* number of completed and abandoned attempts of that user on that issue
C29_OneActiveAttempt ==
  \A u \in Users, i \in CreateIssues :
    Cardinality(AttemptsOf(u, i, { "active" })) <= 1

\* a user with an active, a completed and an abandoned attempt on one issue,
\* for whom the index has refused a second active row
C29_Witness ==
  \E u \in Users, i \in CreateIssues :
    /\ Cardinality(AttemptsOf(u, i, { "active" })) = 1
    /\ AttemptsOf(u, i, { "completed" }) # {}
    /\ AttemptsOf(u, i, { "abandoned" }) # {}
    /\ \E k \in 1..Len(attemptReq) :
         /\ attemptReq[k].user = u /\ attemptReq[k].issue = i
         /\ attemptReq[k].status = "active"
         /\ ~attemptReq[k].ok

\* rows on issue i, whatever their status
RowsOnIssue(i) ==
  { b \in BountyIds : bounties[b].status # "none" /\ bounties[b].issue = i }

\* C28: a create request with valid input for an issue on which every earlier
\* bounty is refunded or expired is answered 201 and inserts a new
\* pending_payment row for that issue
C28_RecreateAfterRefundOrExpiry ==
  [][ \A r \in CreateReqs :
        ( /\ createReq[r].pc = "idle" /\ createReq'[r].pc = "done"
          /\ createReq'[r].resp # 400
          /\ \A b \in RowsOnIssue(createReq'[r].issue) :
               bounties[b].status \in { "refunded", "expired" } )
          => /\ createReq'[r].resp = 201
             /\ \E n \in BountyIds :
                  /\ bounties[n].status = "none"
                  /\ bounties'[n].status = "pending_payment"
                  /\ bounties'[n].issue = createReq'[r].issue ]_vars

\* an issue with a refunded bounty and a new bounty created after it, next to
\* an issue whose bounty expired
C28_Witness ==
  \E a, n, x \in BountyIds :
    /\ a < n
    /\ bounties[a].issue = bounties[n].issue
    /\ bounties[a].status = "refunded"
    /\ bounties[n].status = "pending_payment"
    /\ bounties[x].status = "expired"
    /\ \E r \in CreateReqs : /\ createReq[r].resp = 201
                             /\ createReq[r].issue = bounties[n].issue

\* C31: a deposit for a bounty is mined only while the bounty is still
\* pending_payment and no other pay request holds a mined deposit for it, and
\* the on-chain id a bounty carries is written once and never replaced
C31_OneDepositPerBounty ==
  /\ [][ \A r \in PayReqs :
           (payReq[r].pc = "ledger" /\ payReq'[r].pc = "update")
             => /\ bounties[payReq[r].bounty].status = "pending_payment"
                /\ \A q \in PayReqs \ {r} :
                     ~ ( /\ payReq[q].bounty = payReq[r].bounty
                         /\ payReq[q].pc = "update" ) ]_vars
  /\ [][ \A b \in BountyIds :
           bounties'[b].chainId # bounties[b].chainId
             => bounties[b].chainId = 0 ]_vars

\* is no handler between its ledger call and its store write for bounty b?
Quiet(b) ==
  /\ \A r \in PayReqs :
       payReq[r].bounty = b => payReq[r].pc \notin { "ledger", "update" }
  /\ \A s \in Sweeps :
       (sweep[s].queue # << >> /\ Head(sweep[s].queue) = b)
         => sweep[s].pc \notin { "ledger", "payout", "complete" }

\* C32: handleIssueClosed invokes distributeReward for an issue only when no
\* earlier invocation for that issue has returned, so at most one
\* distribution per (repository, issue) ever succeeds
C32_DistributeOncePerIssue ==
  /\ [][ \A q \in PoolReqs :
           (poolReq[q].pc = "distribute" /\ poolReq'[q].pc # "distribute")
             => distributed[poolReq[q].key] = 0 ]_vars
  /\ [] ( \A k \in SettlementKeys : distributed[k] <= 1 )

\* C33: outside the window in which a handler has acted on the chain and
\* not yet written the store, a funded or claimed bounty has an ACTIVE escrow
\* and a completed bounty a COMPLETED one
C33_StoreMatchesChain ==
  \A b \in BountyIds :
    Quiet(b) =>
      /\ bounties[b].status \in { "funded", "claimed" }
           => EscrowAt(bounties[b].chainId).status = "ACTIVE"
      /\ bounties[b].status = "completed"
           => EscrowAt(bounties[b].chainId).status = "COMPLETED"

\* C34: the completion a run obtains from the contract pays the contributor
\* the contributor payout of the bounty's fee breakdown (base minus
\* contributor fee) and the fee collector the client fee plus the
\* contributor fee
C34_ChainPaysRecordedPayout ==
  [][ \A s \in Sweeps :
        (sweep[s].pc = "ledger" /\ escrows' # escrows) =>
          LET snap == sweep[s].snap
              fees == calculateBountyFees(snap.base)
          IN  /\ balances'[snap.claimedBy] - balances[snap.claimedBy]
                   = fees.contributorPayout
              /\ balances'[FeeCollector] - balances[FeeCollector]
                   = fees.clientFeeAmount + fees.contributorFeeAmount ]_vars

\* C37: an escrow changes status only from ACTIVE, to COMPLETED or REFUNDED,
\* so it is paid out or refunded at most once and never both; a completion
\* sent for an escrow that is no longer ACTIVE reverts and moves nothing
C37_LeavesActiveOnce ==
  /\ [][ \A id \in 1..Len(escrows) :
           escrows'[id] # escrows[id]
             => /\ escrows[id].status = "ACTIVE"
                /\ escrows'[id].status \in { "COMPLETED", "REFUNDED" }
                /\ escrows'[id] = [ escrows[id] EXCEPT
                                      !.status = escrows'[id].status ] ]_vars
  /\ [][ ( /\ lastComplete' # lastComplete
           /\ EscrowAt(lastComplete'.id).status # "ACTIVE" )
          => /\ ~lastComplete'.ok
             /\ escrows' = escrows
             /\ balances' = balances ]_vars
  /\ [][ balances'[EscrowAddress] < balances[EscrowAddress]
          => \E id \in 1..Len(escrows) :
               /\ escrows[id].status = "ACTIVE"
               /\ escrows'[id].status # "ACTIVE" ]_vars

\* an escrow completed before its expiry and left alone after it: the relayer
\* has sent a second completion, and the refund window is open
C37_Witness ==
  \E id \in 1..Len(escrows) :
    /\ escrows[id].status = "COMPLETED"
    /\ escrows[id].expiresAt > 0
    /\ now > escrows[id].expiresAt
    /\ lastComplete.id = id
    /\ lastComplete.sender = relayer
    /\ lastComplete.contributor # 0
    /\ ~lastComplete.ok

\* C38: an ACTIVE escrow with an expiry is completed only at times up to the
\* expiry and refunded only at times after it; completion and refund are
\* never both possible, and isBountyClaimable tells which of the two it is
C38_CompleteOrRefundByTime ==
  /\ [][ \A id \in 1..Len(escrows) :
           (escrows[id].expiresAt > 0 /\ escrows[id].status = "ACTIVE")
             => /\ escrows'[id].status = "COMPLETED" => now <= escrows[id].expiresAt
                /\ escrows'[id].status = "REFUNDED" => now > escrows[id].expiresAt
         ]_vars
  /\ [] ( \A id \in 1..Len(escrows) :
            (escrows[id].expiresAt > 0 /\ escrows[id].status = "ACTIVE")
              => /\ ~ ( /\ \E c \in Users : CanCompleteEscrow(id, c)
                        /\ \E u \in Users : CanRefundEscrow(id, u) )
                 /\ isBountyClaimable(id)
                      <=> \E c \in Users : CanCompleteEscrow(id, c)
                 /\ isBountyClaimable(id)
                      <=> ~ \E u \in Users : CanRefundEscrow(id, u) )

\* an ACTIVE escrow past its expiry for which the relayer's completion has
\* just reverted
C38_Witness ==
  \E id \in 1..Len(escrows) :
    /\ escrows[id].status = "ACTIVE"
    /\ escrows[id].expiresAt > 0
    /\ now > escrows[id].expiresAt
    /\ lastComplete.id = id
    /\ lastComplete.sender = relayer
    /\ lastComplete.contributor # 0
    /\ ~lastComplete.ok

\* the deposits of the escrows that are still ACTIVE
RECURSIVE ActiveDeposits(_)
ActiveDeposits(n) ==
  IF n = 0 THEN 0
  ELSE ActiveDeposits(n - 1)
         + (IF escrows[n].status = "ACTIVE" THEN escrows[n].amount ELSE 0)

C40_PayoutSumsToDeposit ==
  /\ [][ \A id \in 1..Len(escrows) :
           (escrows[id].status = "ACTIVE" /\ escrows'[id].status = "COMPLETED") =>
             LET c     == lastComplete'.contributor
                 gainC == balances'[c] - balances[c]
                 gainF == balances'[FeeCollector] - balances[FeeCollector]
             IN  /\ lastComplete'.id = id
                 /\ gainC >= 0 /\ gainF >= 0
                 /\ gainC + gainF = escrows[id].amount
                 /\ gainF = (escrows[id].amount * feeRates.platform) \div 10000
                           + (escrows[id].amount * feeRates.contributor) \div 10000
                 /\ balances'[EscrowAddress]
                      = balances[EscrowAddress] - escrows[id].amount ]_vars
  /\ [] ( balances[EscrowAddress] = ActiveDeposits(Len(escrows)) )

\* a completion at fee rates of 5% each: the fee collector holds both fees
C40_Witness ==
  \E id \in 1..Len(escrows) :
    /\ escrows[id].status = "COMPLETED"
    /\ feeRates = [ platform |-> 500, contributor |-> 500 ]
    /\ lastComplete.id = id /\ lastComplete.ok
    /\ balances[FeeCollector] = 2 * ((escrows[id].amount * 500) \div 10000)
    /\ balances[FeeCollector] > 0
    /\ balances[EscrowAddress] = 0

\* C35: a bounty that is claimed eventually becomes completed or
\* failed_verification, when sweeps keep being scheduled and every external
\* call eventually returns.
C35_ClaimedEventuallySettled ==
  \A b \in 1..MaxBounties :
    (bounties[b].status = "claimed")
      ~> (bounties[b].status \in {"completed", "failed_verification"})

\* a run of the relayer that has read bounty b as claimed and has not yet
\* sent or given up its completeBounty
SweepHolds(b) ==
  \E s \in Sweeps : /\ sweep[s].pc \in {"verify", "ledger"}
                    /\ Head(sweep[s].queue) = b

\* the deposit of bounty b is still in escrow, has no expiry, and its bounty
\* is failed_verification with no run of the relayer working on it
LockedDeposit(b) ==
  /\ bounties[b].status = "failed_verification"
  /\ EscrowAt(bounties[b].chainId).status = "ACTIVE"
  /\ EscrowAt(bounties[b].chainId).expiresAt = 0
  /\ ~SweepHolds(b)

\* once a deposit is locked in this way, no step pays it out or refunds it
LockedStaysLocked ==
  [][ \A b \in BountyIds : LockedDeposit(b) => LockedDeposit(b)' ]_vars

\* C36: no deposit is locked for ever: no reachable state holds a deposit
\* that no sequence of operations can pay out or refund (a deposit in the
\* state LockedDeposit is one: LockedStaysLocked).
C36_NoDepositLockedForEver == \A b \in BountyIds : ~LockedDeposit(b)

=============================================================================
